---- MODULE Spec2Model ----
(***************************************************************************)
(* Library catalogue: users and their profiles (post_save handlers),      *)
(* permission groups (setup_groups), and the permission / role gates in   *)
(* front of the bookshelf and relationship_app views.                     *)
(*                                                                         *)
(* The database tables are the state.  Every manager call, view and       *)
(* management command is one action; SpecProfileConc alone splits         *)
(* Model.save() into the row write and the two post_save receivers, which *)
(* run in autocommit mode, each statement its own transaction.            *)
(***************************************************************************)
EXTENDS Integers, Sequences, FiniteSets, TLC

\* ------------------------------------------------------------- bounds
MaxUsers == 1
MaxProfileIds == 2
MaxBooks == 1
MaxAuthors == 1
MaxLibraries == 1

\* ---------------------------------------------------------- vocabulary
Anonymous == 0
UserIds == 1..MaxUsers
Identities == {Anonymous} \cup UserIds

\* UserProfile.ROLE_CHOICES
Roles == {"Admin", "Librarian", "Member"}

\* Book.Meta.permissions of bookshelf, as app_label.codename
BookPerms ==
    {"bookshelf.can_view", "bookshelf.can_create",
     "bookshelf.can_edit", "bookshelf.can_delete"}

\* Book.Meta.permissions of relationship_app
RelBookPerms ==
    {"relationship_app.can_add_book", "relationship_app.can_change_book",
     "relationship_app.can_delete_book"}

GroupNames == {"Viewers", "Editors", "Admins"}

Methods == {"GET", "POST"}

VARIABLES
    users,          \* pks of the persisted CustomUser rows
    superusers,     \* the users with is_superuser = True
    nextUserId,     \* next auto-increment pk of the user table
    profiles,       \* UserProfile rows [id, user, role]
    nextProfileId,  \* next auto-increment pk of the profile table
    registered,     \* Permission rows of the Book content types
    groups,         \* Group rows: name -> granted permissions
    membership,     \* user pk -> names of the groups the user is in
    books,          \* bookshelf.Book rows [id, title, author, publication_year]
    nextBookId,     \* next auto-increment pk of the bookshelf book table
    authors,        \* pks of the relationship_app.Author rows
    relBooks,       \* relationship_app.Book rows [id, title, author]
    nextRelBookId,  \* next auto-increment pk of that book table
    req,            \* the Model.save() in flight (SpecProfileConc only)
    sent,           \* the form request last sent to a view body (SpecForm only)
    libraries,      \* relationship_app.Library rows [id, books (pks)]
    nextLibraryId,  \* next auto-increment pk of the library table
    apiBooks,       \* api.Book rows [id, data]
    nextApiBookId,  \* next auto-increment pk of the api book table
    wire,           \* a response before and after CSPMiddleware
    authorNames,    \* relationship_app.Author: pk -> name
    nextAuthorId,   \* next auto-increment pk of the author table
    libraryNames,   \* relationship_app.Library: pk -> name
    librarians,     \* relationship_app.Librarian rows [id, name, library]
    nextLibrarianId,\* next auto-increment pk of the librarian table
    printed,        \* what the last query_samples function listed
    job,            \* the setup_groups run in flight (SpecProvConc only)
    args,           \* the arguments of the last manager call (SpecManager)
    last            \* what the last operation answered

vars ==
    <<users, superusers, nextUserId, profiles, nextProfileId, registered,
      groups, membership, books, nextBookId, authors, relBooks,
      nextRelBookId, req, sent, libraries, nextLibraryId, apiBooks,
      nextApiBookId, wire, authorNames, nextAuthorId, libraryNames,
      librarians, nextLibrarianId, printed, job, args, last>>

profileVars == <<profiles, nextProfileId>>
userVars == <<users, superusers, nextUserId, membership>>
permVars == <<registered, groups>>
bookVars == <<books, nextBookId>>
relVars == <<authors, relBooks, nextRelBookId>>
libVars == <<libraries, nextLibraryId>>
apiVars == <<apiBooks, nextApiBookId>>
nameVars == <<authorNames, nextAuthorId>>
librarianVars == <<libraryNames, librarians, nextLibrarianId>>
sampleVars == <<nameVars, librarianVars, printed>>
\* what only the views of one concern write
otherVars == <<sent, libVars, apiVars, wire, sampleVars, job, args>>

\* ------------------------------------------------------------ responses
NoProfile == [id |-> 0, user |-> 0, role |-> "none"]
Idle == [pc |-> "idle", user |-> 0, created |-> FALSE, cache |-> NoProfile]

\* The answer of an operation: the view or command, the acting identity, the
\* object it named, the HTTP status or the exception, the redirect target,
\* (setup_groups) the groups reported as created, (the bookshelf form
\* views) the fields the rendered form reports an error for, and (the REST
\* views) the kind of identity that called and the rows returned.
Response(op, who, obj, status, to) ==
    [op |-> op, who |-> who, obj |-> obj, status |-> status, to |-> to,
     created |-> {}, errors |-> {}, caller |-> "", rows |-> {}]

NoResponse == Response("none", Anonymous, 0, "none", "")

\* no form request sent yet, and no response through the middleware yet
NoRequest ==
    [method |-> "",
     data |-> [title |-> <<>>, author |-> <<>>, publication_year |-> 0]]
\* no Author or Library row yet, and nothing listed by query_samples yet
NoNames == [pk \in {} |-> ""]
NoPrint == [method1 |-> {}, method2 |-> {}, method3 |-> {}]
\* no setup_groups run in flight
NoJob == [pc |-> "idle", group |-> "", created |-> {}, provisioned |-> FALSE]
\* no manager call yet
NoArgs ==
    [email |-> "", username |-> "", is_staff |-> "default",
     is_superuser |-> "default"]
EmptyHeaders == [n \in {} |-> ""]
NoWire ==
    [inner |-> [status |-> "", body |-> "", headers |-> EmptyHeaders],
     outer |-> [status |-> "", body |-> "", headers |-> EmptyHeaders]]

\* ----------------------------------------------------- profile table
ProfilesOf(P, u) == {p \in P : p.user = u}

ProfileOf(P, u) == CHOOSE p \in P : p.user = u

\* UserProfile.objects.create(user=instance, role=role): an INSERT under the
\* one-to-one (unique) constraint on user
ProfileCreate(P, nid, u, role) ==
    IF ProfilesOf(P, u) # {}
    THEN [ok |-> FALSE, profiles |-> P, row |-> NoProfile]
    ELSE LET row == [id |-> nid, user |-> u, role |-> role]
         IN [ok |-> TRUE, profiles |-> P \cup {row}, row |-> row]

\* instance.profile.save(): UPDATE by pk, and an INSERT when no row has it
ProfileSave(P, row) ==
    IF \E p \in P : p.id = row.id
    THEN [ok |-> TRUE, profiles |-> {p \in P : p.id # row.id} \cup {row}]
    ELSE IF ProfilesOf(P, row.user) # {}
         THEN [ok |-> FALSE, profiles |-> P]
         ELSE [ok |-> TRUE, profiles |-> P \cup {row}]

\* A handler context: the profile table, the next profile pk, the profile
\* cached on the instance being saved, and the exception raised so far.
Ctx(P, nid, cache) ==
    [profiles |-> P, nextProfileId |-> nid, cache |-> cache, err |-> "none"]

\* hasattr(instance, 'profile'): the cached row, else a query by user
HasAttrProfile(c, u) ==
    c.cache # NoProfile \/ ProfilesOf(c.profiles, u) # {}

create_user_profile(c, u, created) ==
    IF created
    THEN LET r == ProfileCreate(c.profiles, c.nextProfileId, u, "Member")
         IN IF r.ok
            THEN [c EXCEPT !.profiles = r.profiles,
                           !.nextProfileId = c.nextProfileId + 1,
                           !.cache = r.row]
            ELSE [c EXCEPT !.err = "IntegrityError"]
    ELSE c

\* mutant of save_user_profile: no hasattr test, the profile is always created
save_user_profile_nocheck(c, u) ==
    LET r == ProfileCreate(c.profiles, c.nextProfileId, u, "Member")
    IN IF r.ok
       THEN [c EXCEPT !.profiles = r.profiles,
                      !.nextProfileId = c.nextProfileId + 1,
                      !.cache = r.row]
       ELSE [c EXCEPT !.err = "IntegrityError"]

\* mutant of save_user_profile: a missing profile is not created
save_user_profile_nocreate(c, u) ==
    IF HasAttrProfile(c, u)
    THEN LET row == IF c.cache # NoProfile THEN c.cache
                    ELSE ProfileOf(c.profiles, u)
             r == ProfileSave(c.profiles, row)
         IN IF r.ok
            THEN [c EXCEPT !.profiles = r.profiles, !.cache = row]
            ELSE [c EXCEPT !.err = "IntegrityError"]
    ELSE c

save_user_profile(c, u) ==
    IF HasAttrProfile(c, u)
    THEN LET row == IF c.cache # NoProfile THEN c.cache
                    ELSE ProfileOf(c.profiles, u)
             r == ProfileSave(c.profiles, row)
         IN IF r.ok
            THEN [c EXCEPT !.profiles = r.profiles, !.cache = row]
            ELSE [c EXCEPT !.err = "IntegrityError"]
    ELSE LET r == ProfileCreate(c.profiles, c.nextProfileId, u, "Member")
         IN IF r.ok
            THEN [c EXCEPT !.profiles = r.profiles,
                           !.nextProfileId = c.nextProfileId + 1,
                           !.cache = r.row]
            ELSE [c EXCEPT !.err = "IntegrityError"]

\* post_save.send(sender=CustomUser): the receivers in the order they were
\* connected; an exception of the first leaves the second unrun
post_save(c, u, created) ==
    LET c1 == create_user_profile(c, u, created)
    IN IF c1.err # "none" THEN c1 ELSE save_user_profile(c1, u)

\* ------------------------------------------------------ user writes
\* Model.save() of a new CustomUser: the INSERT, then post_save(created=True).
\* `again`: the view logs the user in, and update_last_login saves the same
\* instance once more (post_save with created=False).  Nothing wraps the
\* statements in a transaction: what was written before an exception stays.
SaveNewUser(op, who, su, again) ==
    /\ nextUserId <= MaxUsers
    /\ nextProfileId <= MaxProfileIds
    /\ LET u == nextUserId
           c1 == post_save(Ctx(profiles, nextProfileId, NoProfile), u, TRUE)
           c2 == IF again /\ c1.err = "none" THEN post_save(c1, u, FALSE) ELSE c1
       IN /\ users' = users \cup {u}
          /\ superusers' = IF su THEN superusers \cup {u} ELSE superusers
          /\ nextUserId' = nextUserId + 1
          /\ membership' = membership @@ (u :> {})
          /\ profiles' = c2.profiles
          /\ nextProfileId' = c2.nextProfileId
          /\ last' = IF c2.err # "none"
                     THEN Response(op, who, u, c2.err, "")
                     ELSE IF again
                          THEN Response(op, who, u, "302", "book-list")
                          ELSE Response(op, who, u, "ok", "")

\* Model.save() of a persisted CustomUser loaded by this request
SaveUser(op, u, su, gs) ==
    /\ u \in users
    /\ ProfilesOf(profiles, u) # {} \/ nextProfileId <= MaxProfileIds
    /\ LET c == post_save(Ctx(profiles, nextProfileId, NoProfile), u, FALSE)
       IN /\ profiles' = c.profiles
          /\ nextProfileId' = c.nextProfileId
          /\ superusers' = IF su THEN superusers \cup {u} ELSE superusers \ {u}
          /\ membership' = [membership EXCEPT ![u] = gs]
          /\ last' = Response(op, Anonymous, u,
                              IF c.err # "none" THEN c.err ELSE "ok", "")
    /\ UNCHANGED <<users, nextUserId>>

Rejected(op, who, status) ==
    /\ last' = Response(op, who, 0, status, "")
    /\ UNCHANGED <<userVars, profileVars>>

\* CustomUserManager.create_user(email, username); "" is a missing value,
\* any other value stands for one no other user has
create_user(op, email, username, su) ==
    IF email = "" \/ username = ""
    THEN Rejected(op, Anonymous, "ValueError")
    ELSE SaveNewUser(op, Anonymous, su, FALSE)

\* mutant of create_superuser: the two flags are not tested
create_superuser_unchecked(email, username, is_staff, is_superuser) ==
    LET staff == IF is_staff = "default" THEN "True" ELSE is_staff
        super == IF is_superuser = "default" THEN "True" ELSE is_superuser
    IN IF FALSE
       THEN Rejected("create_superuser", Anonymous, "ValueError")
       ELSE create_user("create_superuser", email, username, TRUE)

\* CustomUserManager.create_superuser(email, username, **extra_fields);
\* "default" is a flag the caller left out
create_superuser(email, username, is_staff, is_superuser) ==
    LET staff == IF is_staff = "default" THEN "True" ELSE is_staff
        super == IF is_superuser = "default" THEN "True" ELSE is_superuser
    IN IF staff # "True" \/ super # "True"
       THEN Rejected("create_superuser", Anonymous, "ValueError")
       ELSE create_user("create_superuser", email, username, TRUE)

CreateUser ==
    /\ \E email \in {"", "e"}, username \in {"", "n"} :
          create_user("create_user", email, username, FALSE)
    /\ UNCHANGED <<permVars, bookVars, relVars, req, otherVars>>

CreateSuperuser ==
    /\ \E email \in {"", "e"}, username \in {"", "n"},
          is_staff \in {"default", "True", "False"},
          is_superuser \in {"default", "True", "False"} :
          create_superuser(email, username, is_staff, is_superuser)
    /\ UNCHANGED <<permVars, bookVars, relVars, req, otherVars>>

\* the manager calls with their arguments kept in `args`
CreateUserCall ==
    /\ \E email \in {"", "e"}, username \in {"", "n"} :
          /\ create_user("create_user", email, username, FALSE)
          /\ args' = [email |-> email, username |-> username,
                      is_staff |-> "default", is_superuser |-> "default"]
    /\ UNCHANGED <<permVars, bookVars, relVars, req, sent, libVars, apiVars,
                   wire, sampleVars, job>>

CreateSuperuserCall ==
    /\ \E email \in {"", "e"}, username \in {"", "n"},
          is_staff \in {"default", "True", "False"},
          is_superuser \in {"default", "True", "False"} :
          /\ create_superuser(email, username, is_staff, is_superuser)
          /\ args' = [email |-> email, username |-> username,
                      is_staff |-> is_staff, is_superuser |-> is_superuser]
    /\ UNCHANGED <<permVars, bookVars, relVars, req, sent, libVars, apiVars,
                   wire, sampleVars, job>>

\* relationship_app register view
register(method, valid) ==
    IF method = "POST" /\ valid
    THEN SaveNewUser("register", Anonymous, FALSE, TRUE)
    ELSE Rejected("register", Anonymous, "200")

Register ==
    /\ \E method \in Methods, valid \in BOOLEAN : register(method, valid)
    /\ UNCHANGED <<permVars, bookVars, relVars, req, otherVars>>

\* CustomUserAdmin: the add form of the admin site
AdminAddUser ==
    /\ SaveNewUser("admin_add_user", Anonymous, FALSE, FALSE)
    /\ UNCHANGED <<permVars, bookVars, relVars, req, otherVars>>

\* CustomUserAdmin: the change form with is_superuser edited, then save()
AdminChangeUser ==
    /\ \E u \in users, su \in BOOLEAN :
          SaveUser("admin_change_user", u, su, membership[u])
    /\ UNCHANGED <<permVars, bookVars, relVars, req, otherVars>>

\* CustomUserAdmin: the change form with the groups edited, then save()
AdminSetUserGroups ==
    /\ \E u \in users, gs \in SUBSET (DOMAIN groups) :
          SaveUser("admin_change_user", u, u \in superusers, gs)
    /\ UNCHANGED <<permVars, bookVars, relVars, req, otherVars>>

\* CustomUser.objects.bulk_create([...]): one INSERT, no post_save is sent
BulkCreateUser ==
    /\ nextUserId <= MaxUsers
    /\ users' = users \cup {nextUserId}
    /\ nextUserId' = nextUserId + 1
    /\ membership' = membership @@ (nextUserId :> {})
    /\ last' = Response("bulk_create", Anonymous, nextUserId, "ok", "")
    /\ UNCHANGED <<superusers, profileVars, permVars, bookVars, relVars, req, otherVars>>

\* Deleting a user: UserProfile.user is on_delete=CASCADE
DeleteUser ==
    /\ \E u \in users :
          /\ users' = users \ {u}
          /\ superusers' = superusers \ {u}
          /\ membership' = [v \in users \ {u} |-> membership[v]]
          /\ profiles' = {p \in profiles : p.user # u}
          /\ last' = Response("delete_user", Anonymous, u, "ok", "")
    /\ UNCHANGED <<nextUserId, nextProfileId, permVars, bookVars, relVars, req, otherVars>>

\* UserProfileAdmin: add form; the form refuses a user that has a profile
AdminAddProfile ==
    /\ nextProfileId <= MaxProfileIds
    /\ \E u \in users, role \in Roles :
          LET r == ProfileCreate(profiles, nextProfileId, u, role)
          IN /\ profiles' = r.profiles
             /\ nextProfileId' = IF r.ok THEN nextProfileId + 1 ELSE nextProfileId
             /\ last' = Response("admin_add_profile", Anonymous, u,
                                 IF r.ok THEN "ok" ELSE "invalid", "")
    /\ UNCHANGED <<userVars, permVars, bookVars, relVars, req, otherVars>>

\* UserProfileAdmin: change form, the role field
AdminChangeProfile ==
    /\ \E p \in profiles, role \in Roles :
          /\ profiles' = (profiles \ {p}) \cup {[p EXCEPT !.role = role]}
          /\ last' = Response("admin_change_profile", Anonymous, p.user, "ok", "")
    /\ UNCHANGED <<userVars, nextProfileId, permVars, bookVars, relVars, req, otherVars>>

\* UserProfileAdmin: delete
AdminDeleteProfile ==
    /\ \E p \in profiles :
          /\ profiles' = profiles \ {p}
          /\ last' = Response("admin_delete_profile", Anonymous, p.user, "ok", "")
    /\ UNCHANGED <<userVars, nextProfileId, permVars, bookVars, relVars, req, otherVars>>

\* -------------------------------------------------- role-gated views
is_authenticated(who) == who # Anonymous

\* mutant of is_member: any profile will do
is_member_anyrole(P, who) ==
    IF ~is_authenticated(who) THEN FALSE ELSE ProfilesOf(P, who) # {}

is_admin(P, who) ==
    IF ~is_authenticated(who) THEN FALSE
    ELSE ProfilesOf(P, who) # {} /\ ProfileOf(P, who).role = "Admin"

is_librarian(P, who) ==
    IF ~is_authenticated(who) THEN FALSE
    ELSE ProfilesOf(P, who) # {} /\ ProfileOf(P, who).role = "Librarian"

is_member(P, who) ==
    IF ~is_authenticated(who) THEN FALSE
    ELSE ProfilesOf(P, who) # {} /\ ProfileOf(P, who).role = "Member"

RoleViews == {"admin_view", "librarian_view", "member_view"}

\* the test each role view is decorated with
RoleTest(view, P, who) ==
    CASE view = "admin_view" -> is_admin(P, who)
      [] view = "librarian_view" -> is_librarian(P, who)
      [] view = "member_view" -> is_member(P, who)

\* @user_passes_test(test): the view, or a redirect to the login page
user_passes_test(view, who, passed) ==
    IF passed
    THEN Response(view, who, 0, "200", "")
    ELSE Response(view, who, 0, "302", "login")

RoleView ==
    /\ \E view \in RoleViews, who \in {Anonymous} \cup users :
          last' = user_passes_test(view, who, RoleTest(view, profiles, who))
    /\ UNCHANGED <<userVars, profileVars, permVars, bookVars, relVars, req, otherVars>>

\* ------------------------------------------- permissions and groups
AllPerms == BookPerms \cup RelBookPerms

\* migrate: create_permissions adds the Permission rows Meta.permissions declares
Migrate ==
    /\ registered' = registered \cup AllPerms
    /\ last' = Response("migrate", Anonymous, 0, "ok", "")
    /\ UNCHANGED <<groups, userVars, profileVars, bookVars, relVars, req, otherVars>>

\* A Permission row of bookshelf.Book is deleted; the grants of it go with it
PermissionDelete ==
    /\ \E p \in registered \cap BookPerms :
          /\ registered' = registered \ {p}
          /\ groups' = [g \in DOMAIN groups |-> groups[g] \ {p}]
    /\ last' = Response("permission_delete", Anonymous, 0, "ok", "")
    /\ UNCHANGED <<userVars, profileVars, bookVars, relVars, req, otherVars>>

\* The Group form of the admin site: a group is added, or its permissions set
AdminGroupSave ==
    /\ \E g \in GroupNames, ps \in SUBSET (registered \cap BookPerms) :
          groups' = [h \in DOMAIN groups \cup {g} |->
                        IF h = g THEN ps ELSE groups[h]]
    /\ last' = Response("admin_group_save", Anonymous, 0, "ok", "")
    /\ UNCHANGED <<registered, userVars, profileVars, bookVars, relVars, req, otherVars>>

\* The same form for the one group Editors: grants are added and removed
AdminEditorsSave ==
    /\ \E ps \in SUBSET (registered \cap BookPerms) :
          groups' = [h \in DOMAIN groups \cup {"Editors"} |->
                        IF h = "Editors" THEN ps ELSE groups[h]]
    /\ last' = Response("admin_group_save", Anonymous, 0, "ok", "")
    /\ UNCHANGED <<registered, userVars, profileVars, bookVars, relVars, req,
                   otherVars>>

\* mutant of HasPerm: the decision of the identity's last admitted request
\* is used again
HasPerm_cached(who, perm) ==
    /\ who \in users
    /\ \/ who \in superusers
       \/ \E g \in membership[who] : g \in DOMAIN groups /\ perm \in groups[g]
       \/ last.who = who /\ last.status = "200" /\ last.op \notin RoleViews

\* user.has_perm(perm): an active superuser has every permission, any other
\* user those of the groups it is in (the model grants none to a user directly)
HasPerm(who, perm) ==
    /\ who \in users
    /\ \/ who \in superusers
       \/ \E g \in membership[who] : g \in DOMAIN groups /\ perm \in groups[g]

\* the permissions handle() adds to each group
ViewersGrants == {"bookshelf.can_view"}

\* mutant of EditorsGrants: Editors get can_delete too
EditorsGrants_all == BookPerms

EditorsGrants ==
    {"bookshelf.can_view", "bookshelf.can_create", "bookshelf.can_edit"}

AdminsGrants ==
    {"bookshelf.can_view", "bookshelf.can_create", "bookshelf.can_edit",
     "bookshelf.can_delete"}

\* mutant of get_or_create: the group is deleted and created anew
get_or_create_recreate(d, name) ==
    [d EXCEPT !.groups = [h \in DOMAIN d.groups \cup {name} |->
                             IF h = name THEN {} ELSE d.groups[h]],
              !.membership = [u \in DOMAIN d.membership |->
                                 d.membership[u] \ {name}],
              !.created = d.created \cup {name}]

\* Group.objects.get_or_create(name=name)
get_or_create(d, name) ==
    IF name \in DOMAIN d.groups
    THEN d
    ELSE [d EXCEPT !.groups = d.groups @@ (name :> {}),
                   !.created = d.created \cup {name}]

\* mutant of permissions_clear: the grants are kept
permissions_clear_kept(d, name) == d

\* group.permissions.clear()
permissions_clear(d, name) == [d EXCEPT !.groups[name] = {}]

\* group.permissions.add(*perms)
permissions_add(d, name, perms) ==
    [d EXCEPT !.groups[name] = d.groups[name] \cup perms]

\* one group of handle(): get_or_create, clear, add
Provision(d, name, perms) ==
    permissions_add(permissions_clear(get_or_create(d, name), name), name, perms)

\* mutant of handle: each permission is looked up when its group needs it
handle_lazy(reg, G, M) ==
    LET d0 == [groups |-> G, membership |-> M, created |-> {},
               status |-> "ok"]
        fail(d) == [d EXCEPT !.status = "DoesNotExist"]
        d1 == IF ViewersGrants \subseteq reg
              THEN Provision(d0, "Viewers", ViewersGrants) ELSE fail(d0)
        d2 == IF d1.status # "ok" THEN d1
              ELSE IF EditorsGrants \subseteq reg
                   THEN Provision(d1, "Editors", EditorsGrants) ELSE fail(d1)
        d3 == IF d2.status # "ok" THEN d2
              ELSE IF AdminsGrants \subseteq reg
                   THEN Provision(d2, "Admins", AdminsGrants) ELSE fail(d2)
    IN d3

\* Command.handle of setup_groups: the four Permission.objects.get first
\* (DoesNotExist leaves the command), then the three groups in turn
handle(reg, G, M) ==
    LET d0 == [groups |-> G, membership |-> M, created |-> {},
               status |-> "ok"]
    IN IF ~(BookPerms \subseteq reg)
       THEN [d0 EXCEPT !.status = "DoesNotExist"]
       ELSE Provision(Provision(Provision(d0, "Viewers", ViewersGrants),
                                "Editors", EditorsGrants),
                      "Admins", AdminsGrants)

SetupGroups ==
    /\ LET d == handle(registered, groups, membership)
       IN /\ groups' = d.groups
          /\ membership' = d.membership
          /\ last' = [Response("setup_groups", Anonymous, 0, d.status, "")
                         EXCEPT !.created = d.created]
    /\ UNCHANGED <<registered, users, superusers, nextUserId, profileVars,
                   bookVars, relVars, req, otherVars>>

\* Groups and their grants, every operation whole
NextProv ==
    \/ Migrate
    \/ PermissionDelete
    \/ AdminGroupSave
    \/ SetupGroups

\* ------------------------------------------------ bookshelf: BookForm
CurrentYear == 2026
TitleMaxLength == 200
AuthorMaxLength == 100
MinLength == 2
MinYear == 1000
FutureYears == 10

\* a string is the sequence of its characters
Chars(n) == [i \in 1..n |-> "a"]

RECURSIVE LStrip(_)
LStrip(str) ==
    IF str # <<>> /\ Head(str) = " " THEN LStrip(Tail(str)) ELSE str

RECURSIVE RStrip(_)
RStrip(str) ==
    IF str # <<>> /\ str[Len(str)] = " "
    THEN RStrip(SubSeq(str, 1, Len(str) - 1))
    ELSE str

\* str.strip()
strip(str) == RStrip(LStrip(str))

Valid(v) == [ok |-> TRUE, value |-> v]
Invalid(v) == [ok |-> FALSE, value |-> v]

\* forms.CharField(required=True, max_length=n).clean(raw): the value is
\* stripped, must not be empty and must not be longer than max_length
CharFieldClean(raw, maxlen) ==
    LET v == strip(raw)
    IN IF v = <<>> \/ Len(v) > maxlen THEN Invalid(v) ELSE Valid(v)

\* mutant of clean_title: the minimum length is not tested
clean_title_nomin(title) ==
    IF title # <<>>
    THEN LET t == strip(title)
         IN IF Len(t) > TitleMaxLength THEN Invalid(t) ELSE Valid(t)
    ELSE Valid(title)

\* BookForm.clean_title
clean_title(title) ==
    IF title # <<>>
    THEN LET t == strip(title)
         IN IF Len(t) < MinLength THEN Invalid(t)
            ELSE IF Len(t) > TitleMaxLength THEN Invalid(t)
            ELSE Valid(t)
    ELSE Valid(title)

\* BookForm.clean_author
clean_author(author) ==
    IF author # <<>>
    THEN LET a == strip(author)
         IN IF Len(a) < MinLength THEN Invalid(a)
            ELSE IF Len(a) > AuthorMaxLength THEN Invalid(a)
            ELSE Valid(a)
    ELSE Valid(author)

\* BookForm.clean_publication_year: `if publication_year:` skips the range
\* test for 0
clean_publication_year(year) ==
    IF year # 0
    THEN IF year < MinYear \/ year > CurrentYear + FutureYears
         THEN Invalid(year)
         ELSE Valid(year)
    ELSE Valid(year)

\* a field of the form: the field's own clean, then clean_<name>
FieldClean(first, second) ==
    IF first.ok THEN second ELSE first

\* BookForm(data): is_valid() and cleaned_data
BookForm(data) ==
    LET t0 == CharFieldClean(data.title, TitleMaxLength)
        t == FieldClean(t0, clean_title(t0.value))
        a0 == CharFieldClean(data.author, AuthorMaxLength)
        a == FieldClean(a0, clean_author(a0.value))
        y == clean_publication_year(data.publication_year)
    IN [is_valid |-> t.ok /\ a.ok /\ y.ok,
        errors |-> {f \in {"title", "author", "publication_year"} :
                       \/ f = "title" /\ ~t.ok
                       \/ f = "author" /\ ~a.ok
                       \/ f = "publication_year" /\ ~y.ok},
        cleaned_data |-> [title |-> t.value, author |-> a.value,
                          publication_year |-> y.value]]

\* what a request may submit: forms that validate (one of them with the
\* year 0), and forms with one field wrong
FormData(t, a, y) == [title |-> t, author |-> a, publication_year |-> y]

FormInputs ==
    {FormData(<<" ", "a", "b", " ">>, <<"a", "b">>, MinYear),
     FormData(<<"a", "b">>, <<"a", "b", " ">>, 0),
     FormData(<<"a">>, <<"a", "b">>, MinYear),
     FormData(Chars(TitleMaxLength + 1), <<"a", "b">>, MinYear),
     FormData(<<"a", "b">>, <<" ">>, MinYear),
     FormData(<<"a", "b">>, <<"a", "b">>, MinYear - 1),
     FormData(<<"a", "b">>, <<"a", "b">>, CurrentYear + FutureYears + 1)}

\* the same with the values at and around every limit of the form
BoundaryFormInputs ==
    FormInputs \cup
    {FormData(<<"a", "b">>, <<"a", "b">>, -1),
     FormData(<<" ", " ">>, <<"a", "b">>, MinYear),
     FormData(<<>>, <<"a", "b">>, MinYear),
     FormData(<<"a", "b">>, <<"a">>, MinYear),
     FormData(<<"a", "b">>, Chars(AuthorMaxLength + 1), MinYear),
     FormData(Chars(TitleMaxLength), Chars(AuthorMaxLength),
              CurrentYear + FutureYears)}

\* a GET carries no form data
NoData == FormData(<<>>, <<>>, 0)

Submitted(method) == IF method = "POST" THEN FormInputs ELSE {NoData}

BookIds == 1..(MaxBooks + 1)

\* ---------------------------------------------------- bookshelf: views
\* the permission each view is decorated with
\* mutant of ViewPerm: book_delete asks for can_view
ViewPerm_delete_as_view(view) ==
    CASE view = "book_list" -> "bookshelf.can_view"
      [] view = "book_detail" -> "bookshelf.can_view"
      [] view = "book_create" -> "bookshelf.can_create"
      [] view = "book_edit" -> "bookshelf.can_edit"
      [] view = "book_delete" -> "bookshelf.can_view"
      [] view = "add_book" -> "relationship_app.can_add_book"
      [] view = "edit_book" -> "relationship_app.can_change_book"
      [] view = "delete_book" -> "relationship_app.can_delete_book"

ViewPerm(view) ==
    CASE view = "book_list" -> "bookshelf.can_view"
      [] view = "book_detail" -> "bookshelf.can_view"
      [] view = "book_create" -> "bookshelf.can_create"
      [] view = "book_edit" -> "bookshelf.can_edit"
      [] view = "book_delete" -> "bookshelf.can_delete"
      [] view = "add_book" -> "relationship_app.can_add_book"
      [] view = "edit_book" -> "relationship_app.can_change_book"
      [] view = "delete_book" -> "relationship_app.can_delete_book"

\* mutant of RaiseException: the decorators are given no raise_exception
RaiseException_unset(view) == FALSE

\* the raise_exception each view's permission_required is given
RaiseException(view) == TRUE

\* mutant of permission_required: the views ask for a login only
permission_required_login(view, who) ==
    IF who \in users THEN "pass"
    ELSE IF RaiseException(view) THEN "403"
    ELSE "302"

\* @permission_required(perm, raise_exception): the view runs, PermissionDenied
\* (403) is raised, or the request is redirected to the login page
permission_required(view, who) ==
    IF HasPerm(who, ViewPerm(view)) THEN "pass"
    ELSE IF RaiseException(view) THEN "403"
    ELSE "302"

\* the answer of a request the decorator did not let through
Refused(view, who, pk, gate) ==
    Response(view, who, pk, gate, IF gate = "302" THEN "login" ELSE "")

BookRows(pk) == {b \in books : b.id = pk}

book_list(who) ==
    LET gate == permission_required("book_list", who)
    IN /\ last' = IF gate # "pass" THEN Refused("book_list", who, 0, gate)
                  ELSE Response("book_list", who, 0, "200", "")
       /\ UNCHANGED bookVars

book_detail(who, pk) ==
    LET gate == permission_required("book_detail", who)
    IN /\ last' = IF gate # "pass" THEN Refused("book_detail", who, pk, gate)
                  ELSE IF BookRows(pk) = {}
                       THEN Response("book_detail", who, pk, "404", "")
                       ELSE Response("book_detail", who, pk, "200", "")
       /\ UNCHANGED bookVars

\* the page of a form view: a bound form is rendered with its errors
FormPage(resp, method, form) ==
    [resp EXCEPT !.errors = IF method = "POST" THEN form.errors ELSE {}]

\* mutant of book_create: the form is saved whatever is_valid() answers
book_create_unvalidated(who, method, data) ==
    LET gate == permission_required("book_create", who)
        form == BookForm(data)
    IN IF gate # "pass"
       THEN /\ last' = Refused("book_create", who, 0, gate)
            /\ UNCHANGED bookVars
       ELSE IF method = "POST"
            THEN /\ nextBookId <= MaxBooks
                 /\ books' = books \cup
                       {[id |-> nextBookId,
                         title |-> form.cleaned_data.title,
                         author |-> form.cleaned_data.author,
                         publication_year |-> form.cleaned_data.publication_year]}
                 /\ nextBookId' = nextBookId + 1
                 /\ last' = Response("book_create", who, nextBookId, "302",
                                     "book-detail")
            ELSE /\ last' = FormPage(Response("book_create", who, 0, "200", ""),
                                     method, form)
                 /\ UNCHANGED bookVars

book_create(who, method, data) ==
    LET gate == permission_required("book_create", who)
        form == BookForm(data)
    IN IF gate # "pass"
       THEN /\ last' = Refused("book_create", who, 0, gate)
            /\ UNCHANGED bookVars
       ELSE IF method = "POST" /\ form.is_valid
            THEN /\ nextBookId <= MaxBooks
                 /\ books' = books \cup
                       {[id |-> nextBookId,
                         title |-> form.cleaned_data.title,
                         author |-> form.cleaned_data.author,
                         publication_year |-> form.cleaned_data.publication_year]}
                 /\ nextBookId' = nextBookId + 1
                 /\ last' = Response("book_create", who, nextBookId, "302",
                                     "book-detail")
            ELSE /\ last' = FormPage(Response("book_create", who, 0, "200", ""),
                                     method, form)
                 /\ UNCHANGED bookVars

book_edit(who, pk, method, data) ==
    LET gate == permission_required("book_edit", who)
        form == BookForm(data)
    IN IF gate # "pass"
       THEN /\ last' = Refused("book_edit", who, pk, gate)
            /\ UNCHANGED bookVars
       ELSE IF BookRows(pk) = {}
            THEN /\ last' = Response("book_edit", who, pk, "404", "")
                 /\ UNCHANGED bookVars
            ELSE IF method = "POST" /\ form.is_valid
                 THEN /\ books' = (books \ BookRows(pk)) \cup
                            {[id |-> pk,
                              title |-> form.cleaned_data.title,
                              author |-> form.cleaned_data.author,
                              publication_year |->
                                  form.cleaned_data.publication_year]}
                      /\ last' = Response("book_edit", who, pk, "302",
                                          "book-detail")
                      /\ UNCHANGED nextBookId
                 ELSE /\ last' = FormPage(Response("book_edit", who, pk, "200",
                                                   ""),
                                          method, form)
                      /\ UNCHANGED bookVars

\* mutant of book_delete: the request method is not tested
book_delete_any_method(who, pk, method) ==
    LET gate == permission_required("book_delete", who)
    IN IF gate # "pass"
       THEN /\ last' = Refused("book_delete", who, pk, gate)
            /\ UNCHANGED bookVars
       ELSE IF BookRows(pk) = {}
            THEN /\ last' = Response("book_delete", who, pk, "404", "")
                 /\ UNCHANGED bookVars
            ELSE IF method \in Methods
                 THEN /\ books' = books \ BookRows(pk)
                      /\ last' = Response("book_delete", who, pk, "302",
                                          "book-list")
                      /\ UNCHANGED nextBookId
                 ELSE /\ last' = Response("book_delete", who, pk, "200", "")
                      /\ UNCHANGED bookVars

book_delete(who, pk, method) ==
    LET gate == permission_required("book_delete", who)
    IN IF gate # "pass"
       THEN /\ last' = Refused("book_delete", who, pk, gate)
            /\ UNCHANGED bookVars
       ELSE IF BookRows(pk) = {}
            THEN /\ last' = Response("book_delete", who, pk, "404", "")
                 /\ UNCHANGED bookVars
            ELSE IF method = "POST"
                 THEN /\ books' = books \ BookRows(pk)
                      /\ last' = Response("book_delete", who, pk, "302",
                                          "book-list")
                      /\ UNCHANGED nextBookId
                 ELSE /\ last' = Response("book_delete", who, pk, "200", "")
                      /\ UNCHANGED bookVars

\* who sends a request: nobody logged in, or a persisted user
Requesters == {Anonymous} \cup users

BookList ==
    /\ \E who \in Requesters : book_list(who)
    /\ UNCHANGED <<userVars, profileVars, permVars, relVars, req, otherVars>>

BookDetail ==
    /\ \E who \in Requesters, pk \in BookIds : book_detail(who, pk)
    /\ UNCHANGED <<userVars, profileVars, permVars, relVars, req, otherVars>>

BookCreate ==
    /\ \E who \in Requesters, method \in Methods :
          \E data \in Submitted(method) : book_create(who, method, data)
    /\ UNCHANGED <<userVars, profileVars, permVars, relVars, req, otherVars>>

BookEdit ==
    /\ \E who \in Requesters, pk \in BookIds, method \in Methods :
          \E data \in Submitted(method) : book_edit(who, pk, method, data)
    /\ UNCHANGED <<userVars, profileVars, permVars, relVars, req, otherVars>>

BookDelete ==
    /\ \E who \in Requesters, pk \in BookIds, method \in Methods :
          book_delete(who, pk, method)
    /\ UNCHANGED <<userVars, profileVars, permVars, relVars, req, otherVars>>

\* what a form request may submit when the limits of the form are explored
FormSubmitted(method) ==
    IF method = "POST" THEN BoundaryFormInputs ELSE {NoData}

\* book_create and book_edit with the request kept for reference
BookCreateForm ==
    /\ \E who \in Requesters, method \in Methods :
          \E data \in FormSubmitted(method) :
             /\ book_create(who, method, data)
             /\ sent' = [method |-> method, data |-> data]
    /\ UNCHANGED <<userVars, profileVars, permVars, relVars, req, libVars,
                   apiVars, wire, sampleVars, job, args>>

BookEditForm ==
    /\ \E who \in Requesters, pk \in BookIds, method \in Methods :
          \E data \in FormSubmitted(method) :
             /\ book_edit(who, pk, method, data)
             /\ sent' = [method |-> method, data |-> data]
    /\ UNCHANGED <<userVars, profileVars, permVars, relVars, req, libVars,
                   apiVars, wire, sampleVars, job, args>>

\* book_delete with the request kept in `sent`
BookDeleteSent ==
    /\ \E who \in Requesters, pk \in BookIds, method \in Methods :
          /\ book_delete(who, pk, method)
          /\ sent' = [method |-> method, data |-> NoData]
    /\ UNCHANGED <<userVars, profileVars, permVars, relVars, req, libVars,
                   apiVars, wire, sampleVars, job, args>>

\* bookshelf BookAdmin: a book is added
AdminAddShelfBook ==
    /\ nextBookId <= MaxBooks + 1
    /\ books' = books \cup
          {[id |-> nextBookId, title |-> Chars(2), author |-> Chars(2),
            publication_year |-> CurrentYear]}
    /\ nextBookId' = nextBookId + 1
    /\ last' = Response("admin_add_shelf_book", Anonymous, 0, "ok", "")
    /\ UNCHANGED <<userVars, profileVars, permVars, relVars, req, otherVars>>

\* ------------------------------------------- relationship_app: views
AuthorIds == 1..(MaxAuthors + 1)

\* Author.objects.create(name=name): INSERT with the next pk
AuthorCreate(name) ==
    /\ authors' = authors \cup {nextAuthorId}
    /\ authorNames' =
          [a \in authors \cup {nextAuthorId} |->
              IF a = nextAuthorId THEN name ELSE authorNames[a]]
    /\ nextAuthorId' = nextAuthorId + 1

\* AuthorAdmin: an author is added
AdminAddAuthor ==
    /\ nextAuthorId <= MaxAuthors
    /\ AuthorCreate("Sample Author")
    /\ last' = Response("admin_add_author", Anonymous, 0, "ok", "")
    /\ UNCHANGED <<relBooks, nextRelBookId, userVars, profileVars, permVars,
                   bookVars, req, sent, libVars, apiVars, wire, librarianVars,
                   printed, job, args>>

\* relationship_app BookForm (fields title, author): the title is stripped,
\* required and at most 200 characters, the author an existing Author
RelBookForm(data) ==
    LET t == CharFieldClean(data.title, TitleMaxLength)
    IN [is_valid |-> t.ok /\ data.author \in authors,
        cleaned_data |-> [title |-> t.value, author |-> data.author]]

RelFormInputs == [title : {<<>>, <<"a", "b", " ">>}, author : AuthorIds]

RelSubmitted(method) ==
    IF method = "POST" THEN RelFormInputs
    ELSE {[title |-> <<>>, author |-> 0]}

RelBookRows(pk) == {b \in relBooks : b.id = pk}

\* mutant of add_book: the decorator is left out
add_book_ungated(who, method, data) ==
    LET gate == "pass"
        form == RelBookForm(data)
    IN IF gate # "pass"
       THEN /\ last' = Refused("add_book", who, 0, gate)
            /\ UNCHANGED relVars
       ELSE IF method = "POST" /\ form.is_valid
            THEN /\ nextRelBookId <= MaxBooks
                 /\ relBooks' = relBooks \cup
                       {[id |-> nextRelBookId,
                         title |-> form.cleaned_data.title,
                         author |-> form.cleaned_data.author]}
                 /\ nextRelBookId' = nextRelBookId + 1
                 /\ last' = Response("add_book", who, nextRelBookId, "302",
                                     "book-list")
                 /\ UNCHANGED authors
            ELSE /\ last' = Response("add_book", who, 0, "200", "")
                 /\ UNCHANGED relVars

add_book(who, method, data) ==
    LET gate == permission_required("add_book", who)
        form == RelBookForm(data)
    IN IF gate # "pass"
       THEN /\ last' = Refused("add_book", who, 0, gate)
            /\ UNCHANGED relVars
       ELSE IF method = "POST" /\ form.is_valid
            THEN /\ nextRelBookId <= MaxBooks
                 /\ relBooks' = relBooks \cup
                       {[id |-> nextRelBookId,
                         title |-> form.cleaned_data.title,
                         author |-> form.cleaned_data.author]}
                 /\ nextRelBookId' = nextRelBookId + 1
                 /\ last' = Response("add_book", who, nextRelBookId, "302",
                                     "book-list")
                 /\ UNCHANGED authors
            ELSE /\ last' = Response("add_book", who, 0, "200", "")
                 /\ UNCHANGED relVars

\* mutant of edit_book: the book is looked up before the permission is tested
edit_book_lookup_first(who, pk, method, data) ==
    LET gate == permission_required("edit_book", who)
        form == RelBookForm(data)
    IN IF RelBookRows(pk) = {}
       THEN /\ last' = Response("edit_book", who, pk, "404", "")
            /\ UNCHANGED relVars
       ELSE IF gate # "pass"
            THEN /\ last' = Refused("edit_book", who, pk, gate)
                 /\ UNCHANGED relVars
            ELSE IF method = "POST" /\ form.is_valid
                 THEN /\ relBooks' = (relBooks \ RelBookRows(pk)) \cup
                            {[id |-> pk,
                              title |-> form.cleaned_data.title,
                              author |-> form.cleaned_data.author]}
                      /\ last' = Response("edit_book", who, pk, "302",
                                          "book-list")
                      /\ UNCHANGED <<authors, nextRelBookId>>
                 ELSE /\ last' = Response("edit_book", who, pk, "200", "")
                      /\ UNCHANGED relVars

edit_book(who, pk, method, data) ==
    LET gate == permission_required("edit_book", who)
        form == RelBookForm(data)
    IN IF gate # "pass"
       THEN /\ last' = Refused("edit_book", who, pk, gate)
            /\ UNCHANGED relVars
       ELSE IF RelBookRows(pk) = {}
            THEN /\ last' = Response("edit_book", who, pk, "404", "")
                 /\ UNCHANGED relVars
            ELSE IF method = "POST" /\ form.is_valid
                 THEN /\ relBooks' = (relBooks \ RelBookRows(pk)) \cup
                            {[id |-> pk,
                              title |-> form.cleaned_data.title,
                              author |-> form.cleaned_data.author]}
                      /\ last' = Response("edit_book", who, pk, "302",
                                          "book-list")
                      /\ UNCHANGED <<authors, nextRelBookId>>
                 ELSE /\ last' = Response("edit_book", who, pk, "200", "")
                      /\ UNCHANGED relVars

\* book.delete() also deletes the rows of Library.books that name the book
delete_book(who, pk, method) ==
    LET gate == permission_required("delete_book", who)
    IN IF gate # "pass"
       THEN /\ last' = Refused("delete_book", who, pk, gate)
            /\ UNCHANGED <<relVars, libVars>>
       ELSE IF RelBookRows(pk) = {}
            THEN /\ last' = Response("delete_book", who, pk, "404", "")
                 /\ UNCHANGED <<relVars, libVars>>
            ELSE IF method = "POST"
                 THEN /\ relBooks' = relBooks \ RelBookRows(pk)
                      /\ libraries' =
                            {[l EXCEPT !.books = @ \ {pk}] : l \in libraries}
                      /\ last' = Response("delete_book", who, pk, "302",
                                          "book-list")
                      /\ UNCHANGED <<authors, nextRelBookId, nextLibraryId>>
                 ELSE /\ last' = Response("delete_book", who, pk, "200", "")
                      /\ UNCHANGED <<relVars, libVars>>

AddBook ==
    /\ \E who \in Requesters, method \in Methods :
          \E data \in RelSubmitted(method) : add_book(who, method, data)
    /\ UNCHANGED <<userVars, profileVars, permVars, bookVars, req, otherVars>>

EditBook ==
    /\ \E who \in Requesters, pk \in BookIds, method \in Methods :
          \E data \in RelSubmitted(method) : edit_book(who, pk, method, data)
    /\ UNCHANGED <<userVars, profileVars, permVars, bookVars, req, otherVars>>

DeleteBook ==
    /\ \E who \in Requesters, pk \in BookIds, method \in Methods :
          delete_book(who, pk, method)
    /\ UNCHANGED <<userVars, profileVars, permVars, bookVars, req, sent,
                   apiVars, wire, sampleVars, job, args>>

\* Library.objects.create(name=name) and library.books.add(*bs)
LibraryCreate(name, bs) ==
    /\ libraries' = libraries \cup {[id |-> nextLibraryId, books |-> bs]}
    /\ libraryNames' =
          [l \in (DOMAIN libraryNames) \cup {nextLibraryId} |->
              IF l = nextLibraryId THEN name ELSE libraryNames[l]]
    /\ nextLibraryId' = nextLibraryId + 1

\* delete_book with the request kept in `sent`
DeleteBookSent ==
    /\ \E who \in Requesters, pk \in BookIds, method \in Methods :
          /\ delete_book(who, pk, method)
          /\ sent' = [method |-> method, data |-> NoData]
    /\ UNCHANGED <<userVars, profileVars, permVars, bookVars, req, apiVars,
                   wire, sampleVars, job, args>>

\* LibraryAdmin: a library is added with the books chosen for it
AdminAddLibrary ==
    /\ nextLibraryId <= MaxLibraries
    /\ \E bs \in SUBSET {b.id : b \in relBooks} :
          LibraryCreate("Central Library", bs)
    /\ last' = Response("admin_add_library", Anonymous, 0, "ok", "")
    /\ UNCHANGED <<userVars, profileVars, permVars, bookVars, relVars, req,
                   sent, apiVars, wire, nameVars, librarians, nextLibrarianId,
                   printed, job, args>>

LibraryIds == 1..(MaxLibraries + 1)

\* list_books: no decorator, every request is answered with the list
list_books(who) ==
    last' = Response("list_books", who, 0, "200", "")

\* LibraryDetailView: no mixin, get_object answers 404 for an absent pk
LibraryDetailView(who, pk) ==
    last' = IF \E l \in libraries : l.id = pk
            THEN Response("library_detail", who, pk, "200", "")
            ELSE Response("library_detail", who, pk, "404", "")

ListBooks ==
    /\ \E who \in Requesters : list_books(who)
    /\ UNCHANGED <<userVars, profileVars, permVars, bookVars, relVars, req,
                   otherVars>>

LibraryDetail ==
    /\ \E who \in Requesters, pk \in LibraryIds : LibraryDetailView(who, pk)
    /\ UNCHANGED <<userVars, profileVars, permVars, bookVars, relVars, req,
                   otherVars>>

\* Every gated view, with the users and groups the project provisions:
\* create_user, setup_groups and the group memberships set in the admin site
Next ==
    \/ Migrate
    \/ SetupGroups
    \/ CreateUser
    \/ AdminSetUserGroups
    \/ BookList
    \/ BookDetail
    \/ BookCreate
    \/ BookEdit
    \/ BookDelete
    \/ AddBook
    \/ EditBook
    \/ DeleteBook
    \/ RoleView

\* ------------------------------------- relationship_app: query_samples
\* query_samples.py, run from `manage.py shell`: no request, no acting
\* identity and no permission check.  Titles are sequences of characters,
\* as in the forms.
Title1984 == <<"1", "9", "8", "4">>
TitleAnimalFarm == <<"A", "n", "i", "m", "a", "l", " ", "F", "a", "r", "m">>
TitleSampleBook1 ==
    <<"S", "a", "m", "p", "l", "e", " ", "B", "o", "o", "k", " ", "1">>
TitleSampleBook2 ==
    <<"S", "a", "m", "p", "l", "e", " ", "B", "o", "o", "k", " ", "2">>

\* The relationship_app tables a script function reads and writes
Tables ==
    [authors |-> authors, authorNames |-> authorNames,
     nextAuthorId |-> nextAuthorId, relBooks |-> relBooks,
     nextRelBookId |-> nextRelBookId, libraries |-> libraries,
     libraryNames |-> libraryNames, nextLibraryId |-> nextLibraryId,
     librarians |-> librarians, nextLibrarianId |-> nextLibrarianId]

\* Model.objects.create(...) on the tables t
InsertAuthor(t, name) ==
    [t EXCEPT !.authors = @ \cup {t.nextAuthorId},
              !.authorNames =
                  [a \in t.authors \cup {t.nextAuthorId} |->
                      IF a = t.nextAuthorId THEN name ELSE t.authorNames[a]],
              !.nextAuthorId = @ + 1]

InsertBook(t, title, author) ==
    [t EXCEPT !.relBooks =
                  @ \cup {[id |-> t.nextRelBookId, title |-> title,
                           author |-> author]},
              !.nextRelBookId = @ + 1]

InsertLibrary(t, name) ==
    [t EXCEPT !.libraries = @ \cup {[id |-> t.nextLibraryId, books |-> {}]},
              !.libraryNames =
                  [l \in (DOMAIN t.libraryNames) \cup {t.nextLibraryId} |->
                      IF l = t.nextLibraryId THEN name
                      ELSE t.libraryNames[l]],
              !.nextLibraryId = @ + 1]

InsertLibrarian(t, name, library) ==
    [t EXCEPT !.librarians =
                  @ \cup {[id |-> t.nextLibrarianId, name |-> name,
                           library |-> library]},
              !.nextLibrarianId = @ + 1]

\* library.books.add(*bs)
BooksAdd(t, library, bs) ==
    [t EXCEPT !.libraries =
        {IF l.id = library THEN [l EXCEPT !.books = @ \cup bs] ELSE l :
            l \in t.libraries}]

\* The tables are written back, statement by statement in autocommit mode:
\* what was written before an exception stays written
Commit(t) ==
    /\ authors' = t.authors
    /\ authorNames' = t.authorNames
    /\ nextAuthorId' = t.nextAuthorId
    /\ relBooks' = t.relBooks
    /\ nextRelBookId' = t.nextRelBookId
    /\ libraries' = t.libraries
    /\ libraryNames' = t.libraryNames
    /\ nextLibraryId' = t.nextLibraryId
    /\ librarians' = t.librarians
    /\ nextLibrarianId' = t.nextLibrarianId

\* Author.objects.filter(name=name), Library.objects.filter(name=name)
AuthorsNamed(t, name) == {a \in t.authors : t.authorNames[a] = name}
LibrariesNamed(t, name) ==
    {l \in t.libraries : t.libraryNames[l.id] = name}

\* Book.objects.filter(author=author), and author.books.all(), the reverse
\* manager of the same foreign key
FilterByAuthor(t, author) == {b \in t.relBooks : b.author = author}
ReverseBooks(t, author) == {b \in t.relBooks : author = b.author}
\* Book.objects.filter(author__name=name): the join with the author table
FilterByAuthorName(t, name) ==
    {b \in t.relBooks :
        \E a \in t.authors : a = b.author /\ t.authorNames[a] = name}

\* mutant of AuthorGet: .filter(name=name).first() in place of .get(name=name)
AuthorGet_first(t, name) ==
    LET named == AuthorsNamed(t, name)
    IN IF named = {} THEN [status |-> "DoesNotExist", author |-> 0]
       ELSE [status |-> "ok",
             author |-> CHOOSE a \in named : \A o \in named : a <= o]

\* Author.objects.get(name=name)
AuthorGet(t, name) ==
    LET named == AuthorsNamed(t, name)
    IN IF named = {} THEN [status |-> "DoesNotExist", author |-> 0]
       ELSE IF Cardinality(named) > 1
            THEN [status |-> "MultipleObjectsReturned", author |-> 0]
            ELSE [status |-> "ok", author |-> CHOOSE a \in named : TRUE]

\* Library.objects.get(name=name)
LibraryGet(t, name) ==
    LET named == LibrariesNamed(t, name)
    IN IF named = {} THEN [status |-> "DoesNotExist", library |-> 0]
       ELSE IF Cardinality(named) > 1
            THEN [status |-> "MultipleObjectsReturned", library |-> 0]
            ELSE [status |-> "ok",
                  library |-> (CHOOSE l \in named : TRUE).id]

ScriptResponse(op, status) == Response(op, Anonymous, 0, status, "")

query_books_by_author ==
    LET author_name == "George Orwell"
        got == AuthorGet(Tables, author_name)
        made == InsertAuthor(Tables, author_name)
        author == IF got.status = "ok" THEN got.author ELSE Tables.nextAuthorId
        t == IF got.status = "ok" THEN Tables
             ELSE InsertBook(InsertBook(made, Title1984, author),
                             TitleAnimalFarm, author)
    IN IF got.status = "MultipleObjectsReturned"
       THEN /\ last' = ScriptResponse("query_books_by_author", got.status)
            /\ printed' = NoPrint
            /\ Commit(Tables)
       ELSE /\ last' = ScriptResponse("query_books_by_author", "ok")
            /\ printed' = [method1 |-> FilterByAuthor(t, author),
                           method2 |-> ReverseBooks(t, author),
                           method3 |-> FilterByAuthorName(t, author_name)]
            /\ Commit(t)

\* Author.objects.first() under ordering = ['name']: an author with the
\* least name, any of them when several share it
NameRank(name) == IF name = "George Orwell" THEN 1 ELSE 2
FirstAuthors(t) ==
    {a \in t.authors :
        \A o \in t.authors :
            NameRank(t.authorNames[a]) <= NameRank(t.authorNames[o])}

\* Book.objects.get_or_create(title=title, defaults={'author': author})
BookGetOrCreate(t, title, author) ==
    LET titled == {b \in t.relBooks : b.title = title}
    IN IF titled = {}
       THEN [status |-> "ok", book |-> t.nextRelBookId,
             tables |-> InsertBook(t, title, author)]
       ELSE IF Cardinality(titled) > 1
            THEN [status |-> "MultipleObjectsReturned", book |-> 0,
                  tables |-> t]
            ELSE [status |-> "ok", book |-> (CHOOSE b \in titled : TRUE).id,
                  tables |-> t]

\* the books listed for the library: library.books.all() and
\* Book.objects.filter(libraries__name=name); the third method lists
\* libraries, no books
LibraryListing(t, library, name) ==
    LET pks == UNION {l.books : l \in {x \in t.libraries : x.id = library}}
    IN [method1 |-> {b \in t.relBooks : b.id \in pks},
        method2 |->
            {b \in t.relBooks :
                \E l \in LibrariesNamed(t, name) : b.id \in l.books},
        method3 |-> {}]

list_books_in_library ==
    LET library_name == "Central Library"
        got == LibraryGet(Tables, library_name)
        t1 == InsertLibrary(Tables, library_name)
        library == IF got.status = "ok" THEN got.library
                   ELSE Tables.nextLibraryId
    IN IF got.status = "MultipleObjectsReturned"
       THEN /\ last' = ScriptResponse("list_books_in_library", got.status)
            /\ printed' = NoPrint
            /\ Commit(Tables)
       ELSE IF got.status = "ok"
       THEN /\ last' = ScriptResponse("list_books_in_library", "ok")
            /\ printed' = LibraryListing(Tables, library, library_name)
            /\ Commit(Tables)
       ELSE \E first \in IF t1.authors = {} THEN {t1.nextAuthorId}
                         ELSE FirstAuthors(t1) :
               LET t2 == IF t1.authors = {}
                         THEN InsertAuthor(t1, "Sample Author") ELSE t1
                   b1 == BookGetOrCreate(t2, TitleSampleBook1, first)
                   b2 == BookGetOrCreate(b1.tables, TitleSampleBook2, first)
                   t3 == BooksAdd(b2.tables, library, {b1.book, b2.book})
               IN IF b1.status # "ok"
                  THEN /\ last' = ScriptResponse("list_books_in_library",
                                                 b1.status)
                       /\ printed' = NoPrint
                       /\ Commit(t2)
                  ELSE IF b2.status # "ok"
                  THEN /\ last' = ScriptResponse("list_books_in_library",
                                                 b2.status)
                       /\ printed' = NoPrint
                       /\ Commit(b1.tables)
                  ELSE /\ last' = ScriptResponse("list_books_in_library",
                                                 "ok")
                       /\ printed' = LibraryListing(t3, library, library_name)
                       /\ Commit(t3)

retrieve_librarian_for_library ==
    LET library_name == "Central Library"
        got == LibraryGet(Tables, library_name)
        t1 == IF got.status = "ok" THEN Tables
              ELSE InsertLibrary(Tables, library_name)
        library == IF got.status = "ok" THEN got.library
                   ELSE Tables.nextLibraryId
        t2 == IF \E r \in t1.librarians : r.library = library THEN t1
              ELSE InsertLibrarian(t1, "John Doe", library)
    IN IF got.status = "MultipleObjectsReturned"
       THEN /\ last' = ScriptResponse("retrieve_librarian_for_library",
                                      got.status)
            /\ printed' = NoPrint
            /\ Commit(Tables)
       ELSE /\ last' = ScriptResponse("retrieve_librarian_for_library", "ok")
            /\ printed' = NoPrint
            /\ Commit(t2)

ScriptQuiet == <<userVars, profileVars, permVars, bookVars, req, sent,
                 apiVars, wire, job, args>>

QueryBooksByAuthor ==
    /\ AuthorsNamed(Tables, "George Orwell") = {} =>
          nextAuthorId <= MaxAuthors + 1
    /\ query_books_by_author
    /\ UNCHANGED ScriptQuiet

ListBooksInLibrary ==
    /\ LibrariesNamed(Tables, "Central Library") = {} =>
          nextLibraryId <= MaxLibraries + 1
    /\ list_books_in_library
    /\ UNCHANGED ScriptQuiet

RetrieveLibrarianForLibrary ==
    /\ LibrariesNamed(Tables, "Central Library") = {} =>
          nextLibraryId <= MaxLibraries + 1
    /\ retrieve_librarian_for_library
    /\ UNCHANGED ScriptQuiet

\* ------------------------------------- relationship_app: admin site
AdminQuiet == <<userVars, profileVars, permVars, bookVars, req, sent,
                apiVars, wire, printed, job, args>>

AuthorNameInputs == {"George Orwell", "Sample Author"}
BookTitleInputs == {Title1984, TitleAnimalFarm}

\* AuthorAdmin: an author is added under any name (name is not unique)
AdminAddNamedAuthor ==
    /\ nextAuthorId <= MaxAuthors + 1
    /\ \E name \in AuthorNameInputs : Commit(InsertAuthor(Tables, name))
    /\ last' = Response("admin_add_author", Anonymous, 0, "ok", "")
    /\ UNCHANGED AdminQuiet

\* BookAdmin: a book is added for an existing author
AdminAddBook ==
    /\ nextRelBookId <= MaxBooks + 1
    /\ \E title \in BookTitleInputs, author \in authors :
          Commit(InsertBook(Tables, title, author))
    /\ last' = Response("admin_add_book", Anonymous, 0, "ok", "")
    /\ UNCHANGED AdminQuiet

\* LibrarianAdmin: a librarian is added for an existing library; the form
\* (and the unique index of the one-to-one field) refuses a library that has
\* a librarian
AdminAddLibrarian ==
    /\ nextLibrarianId <= MaxLibraries + 1
    /\ \E l \in libraries :
          IF \E r \in librarians : r.library = l.id
          THEN /\ last' = Response("admin_add_librarian", Anonymous, l.id,
                                   "invalid", "")
               /\ Commit(Tables)
          ELSE /\ last' = Response("admin_add_librarian", Anonymous, l.id,
                                   "ok", "")
               /\ Commit(InsertLibrarian(Tables, "John Doe", l.id))
    /\ UNCHANGED AdminQuiet

\* mutant of DeleteAuthor: the author row alone is deleted
DeleteAuthor_nocascade(t, a) ==
    [t EXCEPT !.authors = @ \ {a},
              !.authorNames = [x \in t.authors \ {a} |-> t.authorNames[x]]]

\* author.delete(): Book.author is on_delete=CASCADE, and the rows of
\* Library.books that name a deleted book go with it
DeleteAuthor(t, a) ==
    LET gone == {b.id : b \in {x \in t.relBooks : x.author = a}}
    IN [t EXCEPT !.authors = @ \ {a},
                 !.authorNames = [x \in t.authors \ {a} |-> t.authorNames[x]],
                 !.relBooks = {b \in @ : b.author # a},
                 !.libraries = {[l EXCEPT !.books = @ \ gone] : l \in @}]

\* library.delete(): Librarian.library is on_delete=CASCADE
DeleteLibrary(t, pk) ==
    [t EXCEPT !.libraries = {l \in @ : l.id # pk},
              !.libraryNames =
                  [x \in (DOMAIN t.libraryNames) \ {pk} |-> t.libraryNames[x]],
              !.librarians = {r \in @ : r.library # pk}]

\* AuthorAdmin: delete
AdminDeleteAuthor ==
    /\ \E a \in authors :
          /\ Commit(DeleteAuthor(Tables, a))
          /\ last' = Response("admin_delete_author", Anonymous, a, "ok", "")
    /\ UNCHANGED AdminQuiet

\* LibraryAdmin: delete
AdminDeleteLibrary ==
    /\ \E l \in libraries :
          /\ Commit(DeleteLibrary(Tables, l.id))
          /\ last' = Response("admin_delete_library", Anonymous, l.id, "ok",
                              "")
    /\ UNCHANGED AdminQuiet

\* The relationship_app views with superusers and authors
NextRel ==
    \/ Migrate
    \/ CreateUser
    \/ CreateSuperuser
    \/ BulkCreateUser
    \/ AdminAddAuthor
    \/ AdminAddLibrary
    \/ AddBook
    \/ EditBook
    \/ DeleteBook
    \/ ListBooks
    \/ LibraryDetail
    \/ RoleView

\* ------------------------------------------------------ api: REST views
\* who calls: nobody authenticated, an authenticated user, a staff user
ApiCallers == {"anonymous", "user", "staff"}

is_api_authenticated(caller) == caller \in {"user", "staff"}
is_staff(caller) == caller = "staff"

\* IsAuthenticated.has_permission and IsAdminUser.has_permission
has_permission(permission, caller) ==
    CASE permission = "IsAuthenticated" -> is_api_authenticated(caller)
      [] permission = "IsAdminUser" ->
            is_api_authenticated(caller) /\ is_staff(caller)

\* APIView.permission_denied: NotAuthenticated (401, or 403 where the first
\* authentication class sends no WWW-Authenticate header) for a request
\* without credentials, PermissionDenied (403) otherwise
DeniedStatuses(caller) ==
    IF is_api_authenticated(caller) THEN {"403"} ELSE {"401", "403"}

ApiResponse(op, caller, pk, status, rows) ==
    [Response(op, Anonymous, pk, status, "") EXCEPT
        !.caller = caller, !.rows = rows]

ApiDenied(op, caller, pk) ==
    \E st \in DeniedStatuses(caller) :
        last' = ApiResponse(op, caller, pk, st, {})

\* mutant of BookList_permission_classes: no permission class
BookList_permission_classes_none == {}

\* BookList.permission_classes
BookList_permission_classes == {"IsAuthenticated"}

\* BookList (ListAPIView): the permissions are checked, then the method is
\* dispatched; only GET has a handler
BookListAPIView(caller, method) ==
    LET op == IF method = "GET" THEN "BookList.get" ELSE "BookList.post"
    IN /\ IF \E p \in BookList_permission_classes : ~has_permission(p, caller)
          THEN ApiDenied(op, caller, 0)
          ELSE IF method = "GET"
               THEN last' = ApiResponse(op, caller, 0, "200", apiBooks)
               ELSE last' = ApiResponse(op, caller, 0, "405", {})
       /\ UNCHANGED apiVars

\* mutant of get_permissions: create asks for authentication only, as the
\* action list of the docstring has it
get_permissions_documented(action) ==
    IF action \in {"update", "partial_update", "destroy"}
    THEN {"IsAdminUser"}
    ELSE {"IsAuthenticated"}

\* BookViewSet.get_permissions
get_permissions(action) ==
    IF action \in {"create", "update", "partial_update", "destroy"}
    THEN {"IsAdminUser"}
    ELSE {"IsAuthenticated"}

ApiActions ==
    {"list", "create", "retrieve", "update", "partial_update", "destroy"}

\* what a book holds, and what a request may submit
ApiBookData == {"a", "b"}
ApiBookIds == 1..(MaxBooks + 1)
ApiRows(pk) == {b \in apiBooks : b.id = pk}

\* the body of each action of the ModelViewSet; valid is the answer of
\* BookSerializer.is_valid
perform(action, caller, pk, data, valid) ==
    CASE action = "list" ->
            /\ last' = ApiResponse(action, caller, 0, "200", apiBooks)
            /\ UNCHANGED apiVars
      [] action = "create" ->
            IF valid
            THEN /\ nextApiBookId <= MaxBooks
                 /\ apiBooks' = apiBooks \cup
                       {[id |-> nextApiBookId, data |-> data]}
                 /\ nextApiBookId' = nextApiBookId + 1
                 /\ last' = ApiResponse(action, caller, nextApiBookId, "201",
                                        {[id |-> nextApiBookId, data |-> data]})
            ELSE /\ last' = ApiResponse(action, caller, 0, "400", {})
                 /\ UNCHANGED apiVars
      [] action = "retrieve" ->
            /\ last' = IF ApiRows(pk) = {}
                       THEN ApiResponse(action, caller, pk, "404", {})
                       ELSE ApiResponse(action, caller, pk, "200", ApiRows(pk))
            /\ UNCHANGED apiVars
      [] action \in {"update", "partial_update"} ->
            IF ApiRows(pk) = {}
            THEN /\ last' = ApiResponse(action, caller, pk, "404", {})
                 /\ UNCHANGED apiVars
            ELSE IF valid
                 THEN /\ apiBooks' = (apiBooks \ ApiRows(pk)) \cup
                            {[id |-> pk, data |-> data]}
                      /\ last' = ApiResponse(action, caller, pk, "200",
                                             {[id |-> pk, data |-> data]})
                      /\ UNCHANGED nextApiBookId
                 ELSE /\ last' = ApiResponse(action, caller, pk, "400", {})
                      /\ UNCHANGED apiVars
      [] action = "destroy" ->
            IF ApiRows(pk) = {}
            THEN /\ last' = ApiResponse(action, caller, pk, "404", {})
                 /\ UNCHANGED apiVars
            ELSE /\ apiBooks' = apiBooks \ ApiRows(pk)
                 /\ last' = ApiResponse(action, caller, pk, "204", {})
                 /\ UNCHANGED nextApiBookId

\* BookViewSet: the permissions get_permissions names for the action are
\* checked, then the action runs
BookViewSet(action, caller, pk, data, valid) ==
    IF \E p \in get_permissions(action) : ~has_permission(p, caller)
    THEN /\ ApiDenied(action, caller, pk)
         /\ UNCHANGED apiVars
    ELSE perform(action, caller, pk, data, valid)

ApiQuiet ==
    <<userVars, profileVars, permVars, bookVars, relVars, req, sent, libVars,
      wire, sampleVars, job, args>>

ApiBookList ==
    /\ \E caller \in ApiCallers, method \in Methods :
          BookListAPIView(caller, method)
    /\ UNCHANGED ApiQuiet

ApiList ==
    /\ \E caller \in ApiCallers : BookViewSet("list", caller, 0, "a", TRUE)
    /\ UNCHANGED ApiQuiet

ApiCreate ==
    /\ \E caller \in ApiCallers, data \in ApiBookData, valid \in BOOLEAN :
          BookViewSet("create", caller, 0, data, valid)
    /\ UNCHANGED ApiQuiet

ApiRetrieve ==
    /\ \E caller \in ApiCallers, pk \in ApiBookIds :
          BookViewSet("retrieve", caller, pk, "a", TRUE)
    /\ UNCHANGED ApiQuiet

ApiUpdate ==
    /\ \E caller \in ApiCallers, pk \in ApiBookIds, data \in ApiBookData,
          valid \in BOOLEAN : BookViewSet("update", caller, pk, data, valid)
    /\ UNCHANGED ApiQuiet

ApiPartialUpdate ==
    /\ \E caller \in ApiCallers, pk \in ApiBookIds, data \in ApiBookData,
          valid \in BOOLEAN :
          BookViewSet("partial_update", caller, pk, data, valid)
    /\ UNCHANGED ApiQuiet

ApiDestroy ==
    /\ \E caller \in ApiCallers, pk \in ApiBookIds :
          BookViewSet("destroy", caller, pk, "a", TRUE)
    /\ UNCHANGED ApiQuiet

\* The REST views
NextApi ==
    \/ ApiBookList
    \/ ApiList
    \/ ApiCreate
    \/ ApiRetrieve
    \/ ApiUpdate
    \/ ApiPartialUpdate
    \/ ApiDestroy

\* --------------------------------------------------- CSPMiddleware
\* bookshelf/middleware.py.  A response is its status, its body and its
\* headers, a function from the names of the headers that are set to their
\* values.
csp_policy ==
    "default-src 'self'; script-src 'self' 'unsafe-inline'; style-src 'self' 'unsafe-inline'; img-src 'self' data:; font-src 'self'; connect-src 'self'; frame-ancestors 'none';"

\* response[name] = value
SetHeader_setdefault(response, name, value) ==
    [response EXCEPT !.headers =
        [n \in (DOMAIN response.headers) \cup {name} |->
            IF n \in DOMAIN response.headers
            THEN response.headers[n] ELSE value]]

SetHeader(response, name, value) ==
    [response EXCEPT !.headers =
        [n \in (DOMAIN response.headers) \cup {name} |->
            IF n = name THEN value ELSE response.headers[n]]]

\* CSPMiddleware.__call__ on the response of get_response(request)
CSPMiddleware(response) ==
    SetHeader(
        SetHeader(
            SetHeader(
                SetHeader(response, "Content-Security-Policy", csp_policy),
                "X-Content-Type-Options", "nosniff"),
            "X-Frame-Options", "DENY"),
        "X-XSS-Protection", "1; mode=block")

\* What get_response can hand to the middleware: the answer of any view
\* (or of an inner middleware), with any of these headers set already
InnerStatuses == {"200", "302", "403", "404"}
InnerBodies == {"", "page"}
InnerHeaderNames ==
    {"Content-Security-Policy", "X-Content-Type-Options", "X-Frame-Options",
     "X-XSS-Protection", "Content-Type"}
InnerHeaderValues == {"DENY", "SAMEORIGIN"}
InnerHeaders == UNION {[S -> InnerHeaderValues] : S \in SUBSET InnerHeaderNames}
InnerResponses ==
    [status : InnerStatuses, body : InnerBodies, headers : InnerHeaders]

CSPRequest ==
    /\ \E response \in InnerResponses :
          wire' = [inner |-> response, outer |-> CSPMiddleware(response)]
    /\ UNCHANGED <<userVars, profileVars, permVars, bookVars, relVars, req,
                   sent, libVars, apiVars, sampleVars, job,
                   args, last>>

NextCSP == CSPRequest

\* --------------------------------------------------- specifications
Init ==
    /\ users = {}
    /\ superusers = {}
    /\ nextUserId = 1
    /\ profiles = {}
    /\ nextProfileId = 1
    /\ registered = {}
    /\ groups = <<>>
    /\ membership = <<>>
    /\ books = {}
    /\ nextBookId = 1
    /\ authors = {}
    /\ relBooks = {}
    /\ nextRelBookId = 1
    /\ req = Idle
    /\ sent = NoRequest
    /\ libraries = {}
    /\ nextLibraryId = 1
    /\ apiBooks = {}
    /\ nextApiBookId = 1
    /\ wire = NoWire
    /\ authorNames = NoNames
    /\ nextAuthorId = 1
    /\ libraryNames = NoNames
    /\ librarians = {}
    /\ nextLibrarianId = 1
    /\ printed = NoPrint
    /\ job = NoJob
    /\ args = NoArgs
    /\ last = NoResponse

\* Users and profiles, every operation whole
NextProfile ==
    \/ CreateUser
    \/ CreateSuperuser
    \/ Register
    \/ AdminAddUser
    \/ AdminChangeUser
    \/ BulkCreateUser
    \/ DeleteUser
    \/ AdminAddProfile
    \/ AdminChangeProfile
    \/ AdminDeleteProfile
    \/ RoleView

SpecProfile == Init /\ [][NextProfile]_vars

SpecProv == Init /\ [][NextProv]_vars

Spec == Init /\ [][Next]_vars

SpecRel == Init /\ [][NextRel]_vars

\* The bookshelf views while the grants of a group and its members change
NextGrants ==
    \/ Migrate
    \/ AdminEditorsSave
    \/ CreateUser
    \/ AdminSetUserGroups
    \/ BookList
    \/ BookDetail
    \/ BookCreate
    \/ BookEdit
    \/ BookDelete

SpecGrants == Init /\ [][NextGrants]_vars

SpecApi == Init /\ [][NextApi]_vars

SpecCSP == Init /\ [][NextCSP]_vars

\* The query_samples functions next to the gated Book views
NextSamples ==
    \/ CreateSuperuser
    \/ AdminAddAuthor
    \/ QueryBooksByAuthor
    \/ ListBooksInLibrary
    \/ RetrieveLibrarianForLibrary
    \/ AddBook
    \/ DeleteBook

SpecSamples == Init /\ [][NextSamples]_vars

\* The manager calls, and the deletion of a user
NextManager ==
    \/ CreateUserCall
    \/ CreateSuperuserCall
    \/ DeleteUser

SpecManager == Init /\ [][NextManager]_vars

\* Creating and deleting the rows that reference each other
NextIntegrity ==
    \/ CreateUser
    \/ AdminAddProfile
    \/ DeleteUser
    \/ QueryBooksByAuthor
    \/ ListBooksInLibrary
    \/ RetrieveLibrarianForLibrary
    \/ AdminAddLibrarian
    \/ AdminDeleteAuthor
    \/ AdminDeleteLibrary

SpecIntegrity == Init /\ [][NextIntegrity]_vars

\* The two delete views over the books of the admin site and of
\* query_books_by_author
NextDelete ==
    \/ CreateSuperuser
    \/ QueryBooksByAuthor
    \/ AdminAddShelfBook
    \/ BookDeleteSent
    \/ DeleteBookSent

SpecDelete == Init /\ [][NextDelete]_vars

\* setup_groups statement by statement.  handle() opens no transaction, so
\* each statement is committed on its own and the requests of other
\* processes fall between them.  job.provisioned remembers whether the run
\* began on provisioned groups.
GroupGrants(name) ==
    CASE name = "Viewers" -> ViewersGrants
      [] name = "Editors" -> EditorsGrants
      [] name = "Admins" -> AdminsGrants

GroupsWellProvisioned ==
    /\ {"Viewers", "Editors", "Admins"} \subseteq DOMAIN groups
    /\ \A name \in {"Viewers", "Editors", "Admins"} :
          groups[name] = GroupGrants(name)

JobTables ==
    [groups |-> groups, membership |-> membership, created |-> job.created,
     status |-> "ok"]

\* the four Permission.objects.get
BeginSetupGroups ==
    /\ job.pc = "idle"
    /\ IF ~(BookPerms \subseteq registered)
       THEN /\ last' = Response("setup_groups", Anonymous, 0, "DoesNotExist",
                                "")
            /\ UNCHANGED job
       ELSE /\ job' = [pc |-> "get_or_create", group |-> "Viewers",
                       created |-> {}, provisioned |-> GroupsWellProvisioned]
            /\ last' = NoResponse
    /\ UNCHANGED <<userVars, profileVars, permVars, bookVars, relVars, req,
                   sent, libVars, apiVars, wire, sampleVars, args>>

\* Group.objects.get_or_create(name=...)
StepGetOrCreate ==
    /\ job.pc = "get_or_create"
    /\ LET d == get_or_create(JobTables, job.group)
       IN /\ groups' = d.groups
          /\ job' = [job EXCEPT !.pc = "clear", !.created = d.created]
    /\ last' = NoResponse
    /\ UNCHANGED <<registered, userVars, profileVars, bookVars, relVars, req,
                   sent, libVars, apiVars, wire, sampleVars, args>>

\* group.permissions.clear()
StepPermissionsClear ==
    /\ job.pc = "clear"
    /\ groups' = permissions_clear(JobTables, job.group).groups
    /\ job' = [job EXCEPT !.pc = "add"]
    /\ last' = NoResponse
    /\ UNCHANGED <<registered, userVars, profileVars, bookVars, relVars, req,
                   sent, libVars, apiVars, wire, sampleVars, args>>

\* group.permissions.add(...), then the next group or the end of handle()
StepPermissionsAdd ==
    /\ job.pc = "add"
    /\ groups' = permissions_add(JobTables, job.group,
                                 GroupGrants(job.group)).groups
    /\ IF job.group = "Admins"
       THEN /\ job' = NoJob
            /\ last' = [Response("setup_groups", Anonymous, 0, "ok", "")
                           EXCEPT !.created = job.created]
       ELSE /\ job' = [job EXCEPT !.pc = "get_or_create",
                                  !.group = IF job.group = "Viewers"
                                            THEN "Editors" ELSE "Admins"]
            /\ last' = NoResponse
    /\ UNCHANGED <<registered, userVars, profileVars, bookVars, relVars, req,
                   sent, libVars, apiVars, wire, sampleVars, args>>

\* Group members at the bookshelf views while setup_groups runs
NextProvConc ==
    \/ Migrate
    \/ BeginSetupGroups
    \/ StepGetOrCreate
    \/ StepPermissionsClear
    \/ StepPermissionsAdd
    \/ CreateUser
    \/ AdminSetUserGroups
    \/ BookList
    \/ BookDelete

SpecProvConc == Init /\ [][NextProvConc]_vars

\* query_books_by_author over the authors and books the admin site added
NextQuery ==
    \/ AdminAddNamedAuthor
    \/ AdminAddBook
    \/ QueryBooksByAuthor

SpecQuery == Init /\ [][NextQuery]_vars

\* The bookshelf form views, for nobody logged in and for superusers
NextForm ==
    \/ CreateSuperuser
    \/ BookCreateForm
    \/ BookEditForm
    \/ BookDelete

SpecForm == Init /\ [][NextForm]_vars

\* The views of both applications that look a book up, for nobody logged in
\* and for superusers
NextOrder ==
    \/ CreateSuperuser
    \/ AdminAddAuthor
    \/ BookCreate
    \/ BookEdit
    \/ BookDelete
    \/ AddBook
    \/ EditBook
    \/ DeleteBook

SpecOrder == Init /\ [][NextOrder]_vars

\* ------------------------------------- Model.save(), statement by statement
\* user.save(): the INSERT of the user row is committed before post_save runs
BeginSaveNew ==
    /\ req.pc = "idle"
    /\ nextUserId <= MaxUsers
    /\ nextProfileId <= MaxProfileIds
    /\ users' = users \cup {nextUserId}
    /\ nextUserId' = nextUserId + 1
    /\ membership' = membership @@ (nextUserId :> {})
    /\ req' = [pc |-> "create_user_profile", user |-> nextUserId,
               created |-> TRUE, cache |-> NoProfile]
    /\ last' = NoResponse
    /\ UNCHANGED <<superusers, profileVars, permVars, bookVars, relVars,
                   otherVars>>

\* user.save() of a persisted user: the UPDATE, then post_save
BeginSave ==
    /\ req.pc = "idle"
    /\ \E u \in users :
          /\ ProfilesOf(profiles, u) # {} \/ nextProfileId <= MaxProfileIds
          /\ req' = [pc |-> "create_user_profile", user |-> u,
                     created |-> FALSE, cache |-> NoProfile]
    /\ last' = NoResponse
    /\ UNCHANGED <<userVars, profileVars, permVars, bookVars, relVars,
                   otherVars>>

\* the first receiver runs
StepCreateUserProfile ==
    /\ req.pc = "create_user_profile"
    /\ LET c == create_user_profile(Ctx(profiles, nextProfileId, req.cache),
                                    req.user, req.created)
       IN /\ profiles' = c.profiles
          /\ nextProfileId' = c.nextProfileId
          /\ IF c.err # "none"
             THEN /\ req' = Idle
                  /\ last' = Response("save", Anonymous, req.user, c.err, "")
             ELSE /\ req' = [req EXCEPT !.pc = "save_user_profile",
                                        !.cache = c.cache]
                  /\ last' = NoResponse
    /\ UNCHANGED <<userVars, permVars, bookVars, relVars,
                   otherVars>>

\* the INSERT of the first receiver fails in the database (a locked table, a
\* lost connection): the exception leaves save(), the user row stays
ProfileInsertFails ==
    /\ req.pc = "create_user_profile"
    /\ req.created
    /\ req' = Idle
    /\ last' = Response("save", Anonymous, req.user, "OperationalError", "")
    /\ UNCHANGED <<userVars, profileVars, permVars, bookVars, relVars,
                   otherVars>>

\* the second receiver runs
StepSaveUserProfile ==
    /\ req.pc = "save_user_profile"
    /\ ProfilesOf(profiles, req.user) # {} \/ nextProfileId <= MaxProfileIds
    /\ LET c == save_user_profile(Ctx(profiles, nextProfileId, req.cache),
                                  req.user)
       IN /\ profiles' = c.profiles
          /\ nextProfileId' = c.nextProfileId
          /\ req' = Idle
          /\ last' = Response("save", Anonymous, req.user,
                              IF c.err # "none" THEN c.err ELSE "ok", "")
    /\ UNCHANGED <<userVars, permVars, bookVars, relVars,
                   otherVars>>

\* Users and profiles with the requests of other processes between the
\* statements of one save()
NextProfileConc ==
    \/ BeginSaveNew
    \/ BeginSave
    \/ StepCreateUserProfile
    \/ ProfileInsertFails
    \/ StepSaveUserProfile
    \/ AdminAddProfile
    \/ AdminChangeProfile
    \/ RoleView

SpecProfileConc == Init /\ [][NextProfileConc]_vars

\* ------------------------------------------------------------- claims
SaveOps ==
    {"create_user", "create_superuser", "register", "admin_add_user",
     "admin_change_user"}

CreateOps == {"create_user", "create_superuser", "register", "admin_add_user"}

\* C1: when a user has been created through a saving path (create_user,
\* create_superuser, the registration view, the admin add form), the save
\* did not fail with a uniqueness error and exactly one profile is linked to
\* the user, with the role Member.
C1_CreatedUserHasOneMemberProfile ==
    (last.op \in CreateOps /\ last.obj # 0) =>
        /\ last.status # "IntegrityError"
        /\ Cardinality(ProfilesOf(profiles, last.obj)) = 1
        /\ \A p \in ProfilesOf(profiles, last.obj) : p.role = "Member"

C1_Witness ==
    /\ last.op = "register"
    /\ last.status = "302"
    /\ \E p \in profiles : p.user = last.obj /\ p.role = "Member"

\* C2 as stated: after every user write (creation, bulk creation included,
\* or update) every persisted user has exactly one profile.
C2_EveryUserHasProfileAfterWrite ==
    (last.op \in SaveOps \cup {"bulk_create"} /\ last.obj # 0) =>
        \A u \in users : Cardinality(ProfilesOf(profiles, u)) = 1

\* C2, amended: after a user write through save() (creation or update) the
\* user written has exactly one profile, and where the user had none before
\* the write that profile has the role Member.
C2_SavedUserHasOneProfile ==
    [][(last'.op \in SaveOps /\ last'.obj # 0) =>
          /\ Cardinality(ProfilesOf(profiles', last'.obj)) = 1
          /\ ProfilesOf(profiles, last'.obj) = {} =>
                \A p \in ProfilesOf(profiles', last'.obj) : p.role = "Member"]_vars

C2_Witness ==
    /\ last.op = "admin_change_user"
    /\ users = {1}
    /\ nextProfileId = 2
    /\ profiles = {[id |-> 1, user |-> 1, role |-> "Member"]}
    /\ nextUserId = 2

\* C3 as stated: in no reachable state, between the statements of a save()
\* or after a failed profile creation, is a user persisted without a profile.
C3_NoUserWithoutProfile ==
    \A u \in users : ProfilesOf(profiles, u) # {}

RequiredRole(view) ==
    CASE view = "admin_view" -> "Admin"
      [] view = "librarian_view" -> "Librarian"
      [] view = "member_view" -> "Member"

\* C10: a role-gated view answers with its page exactly when the identity is
\* authenticated and has a profile whose role is the one of the view; an
\* anonymous identity or one without a profile gets no view, and no identity
\* passes the test of more than one of the three views.
C10_RoleViewIsRolePredicate ==
    /\ last.op \in RoleViews =>
          (last.status = "200" <=>
              /\ last.who # Anonymous
              /\ \E p \in profiles :
                    p.user = last.who /\ p.role = RequiredRole(last.op))
    /\ \A who \in {Anonymous} \cup users :
          /\ Cardinality({v \in RoleViews : RoleTest(v, profiles, who)}) <= 1
          /\ (who = Anonymous \/ ProfilesOf(profiles, who) = {}) =>
                \A v \in RoleViews : ~RoleTest(v, profiles, who)

C10_Witness ==
    /\ last.op = "librarian_view"
    /\ last.status = "200"
    /\ last.who \in users

\* what handle() is to leave in each group
ExpectedGrants ==
    [g \in GroupNames |->
        CASE g = "Viewers" -> {"bookshelf.can_view"}
          [] g = "Editors" -> {"bookshelf.can_view", "bookshelf.can_create",
                               "bookshelf.can_edit"}
          [] g = "Admins" -> BookPerms]

\* C6: when provisioning has completed, whatever the groups held before,
\* Viewers holds exactly {can_view}, Editors exactly {can_view, can_create,
\* can_edit} and Admins exactly the four capabilities.
C6_ProvisioningReplacesGrants ==
    (last.op = "setup_groups" /\ last.status = "ok") =>
        /\ GroupNames \subseteq DOMAIN groups
        /\ \A g \in GroupNames : groups[g] = ExpectedGrants[g]

C6_Witness ==
    /\ last.op = "setup_groups"
    /\ last.status = "ok"
    /\ last.created = {"Editors"}

\* the groups are as a completed provisioning run leaves them
Provisioned ==
    /\ GroupNames \subseteq DOMAIN groups
    /\ \A g \in GroupNames : groups[g] = ExpectedGrants[g]

\* C7: a provisioning run started on what a completed run has left (users
\* may have joined the groups since) completes, creates no group, and leaves
\* every group's grants and every user's group memberships as they were.
C7_ProvisioningIdempotent ==
    [][(Provisioned /\ last'.op = "setup_groups") =>
          /\ last'.status = "ok"
          /\ last'.created = {}
          /\ groups' = groups
          /\ membership' = membership]_vars

C7_Witness ==
    /\ last.op = "setup_groups"
    /\ last.status = "ok"
    /\ last.created = {}
    /\ \E u \in users : membership[u] # {}

\* C8: a provisioning run started with one of the four Book capabilities
\* unregistered ends with an error, creates no group and leaves every
\* group's grants and every membership unchanged.
C8_MissingCapabilityFailsCleanly ==
    [][(last'.op = "setup_groups" /\ ~(BookPerms \subseteq registered)) =>
          /\ last'.status = "DoesNotExist"
          /\ last'.created = {}
          /\ groups' = groups
          /\ membership' = membership]_vars

C8_Witness ==
    /\ last.op = "setup_groups"
    /\ last.status = "DoesNotExist"
    /\ "bookshelf.can_view" \in registered
    /\ "bookshelf.can_delete" \notin registered
    /\ DOMAIN groups # {}

\* the capability a user holds: it is a superuser, or one of the groups it
\* is a member of is granted it; nobody logged in holds none
HoldsCapability(who, cap) ==
    /\ who # Anonymous
    /\ \/ who \in superusers
       \/ \E g \in DOMAIN groups : g \in membership[who] /\ cap \in groups[g]

\* C4: a book_delete request (GET or POST, for a stored or an absent book)
\* of an identity that does not hold bookshelf.can_delete is answered with
\* 403 and leaves the stored books as they were.
C4_NoDeleteWithoutCapability ==
    [][(last'.op = "book_delete"
          /\ ~HoldsCapability(last'.who, "bookshelf.can_delete")) =>
          /\ last'.status = "403"
          /\ books' = books]_vars

C4_Witness ==
    /\ last.op = "book_delete"
    /\ last.status = "403"
    /\ last.who \in users
    /\ membership[last.who] = {"Editors"}
    /\ \E b \in books : b.id = last.obj

BookshelfViews ==
    {"book_list", "book_detail", "book_create", "book_edit", "book_delete"}

\* the capability each bookshelf operation is about
RequiredCapability(view) ==
    CASE view \in {"book_list", "book_detail"} -> "bookshelf.can_view"
      [] view = "book_create" -> "bookshelf.can_create"
      [] view = "book_edit" -> "bookshelf.can_edit"
      [] view = "book_delete" -> "bookshelf.can_delete"

\* C5: once the three groups are provisioned, a user that is no superuser and
\* a member of exactly one of them is rejected (403) at a bookshelf view
\* exactly when the group is not to hold the view's capability (Viewers:
\* view; Editors: view, create, edit; Admins: all four); where it is not
\* rejected and the book asked for exists, the view answers 200 or 302.
C5_GroupMembersDoExactlyTheirOperations ==
    (/\ last.op \in BookshelfViews
     /\ GroupNames \subseteq DOMAIN groups
     /\ last.who \in users \ superusers) =>
        \A g \in GroupNames :
            membership[last.who] = {g} =>
                /\ last.status = "403" <=>
                      RequiredCapability(last.op) \notin ExpectedGrants[g]
                /\ (/\ RequiredCapability(last.op) \in ExpectedGrants[g]
                    /\ last.op \in {"book_list", "book_create"}
                          \/ \E b \in books : b.id = last.obj) =>
                       last.status \in {"200", "302"}

C5_Witness ==
    /\ last.op = "book_create"
    /\ last.status = "302"
    /\ last.who \in users
    /\ membership[last.who] = {"Editors"}
    /\ books # {}

CapabilityViews == BookshelfViews \cup {"add_book", "edit_book", "delete_book"}

\* the capability each view of the two applications is gated by
GateCapability(view) ==
    CASE view \in BookshelfViews -> RequiredCapability(view)
      [] view = "add_book" -> "relationship_app.can_add_book"
      [] view = "edit_book" -> "relationship_app.can_change_book"
      [] view = "delete_book" -> "relationship_app.can_delete_book"

\* the gate refuses the request last answered: the identity does not hold
\* the view's capability, or has no profile with the view's role
GateRefuses ==
    \/ /\ last.op \in CapabilityViews
       /\ ~HoldsCapability(last.who, GateCapability(last.op))
    \/ /\ last.op \in RoleViews
       /\ ~(/\ last.who # Anonymous
            /\ \E p \in profiles :
                  p.user = last.who /\ p.role = RequiredRole(last.op))

\* C9 as stated: every request the gate refuses, at a capability-gated or a
\* role-gated view, from a logged-in identity or not, is answered with 403.
C9_EveryRefusalIs403 ==
    GateRefuses => last.status = "403"

\* C9, amended: a request refused at a capability-gated view is answered
\* with 403 and no redirect, logged in or not; a request refused at a
\* role-gated view is answered with a redirect (302) to the login page.
C9_RefusalIs403OrLoginRedirect ==
    GateRefuses =>
        IF last.op \in CapabilityViews
        THEN last.status = "403" /\ last.to = ""
        ELSE last.status = "302" /\ last.to = "login"

C9_Witness ==
    /\ last.op = "admin_view"
    /\ last.who \in users
    /\ \E p \in profiles : p.user = last.who /\ p.role = "Member"
    /\ last.status = "302"

\* C11: the answer to a request at a bookshelf view follows the grants as
\* they are when it is made: it is 403 exactly when the identity does not,
\* at that time, hold the view's capability through a group it is in,
\* whatever was granted, revoked or answered before.
C11_GateReadsCurrentGrants ==
    last.op \in BookshelfViews =>
        (last.status = "403" <=>
            ~HoldsCapability(last.who, RequiredCapability(last.op)))

C11_Witness ==
    /\ last.op = "book_detail"
    /\ last.status = "403"
    /\ last.who \in users
    /\ membership[last.who] = {"Editors"}
    /\ groups["Editors"] = {"bookshelf.can_create", "bookshelf.can_delete"}
    /\ \E b \in books : b.id = last.obj

\* the identity holds no capability and has no role: nobody logged in, or a
\* user that is no superuser, holds no grant through a group and has no profile
HoldsNothing(who) ==
    \/ who = Anonymous
    \/ /\ who \notin superusers
       /\ \A cap \in AllPerms : ~HoldsCapability(who, cap)
       /\ \A p \in profiles : p.user # who

\* the request last answered was let through to the view's body
Admitted ==
    \/ last.status \in {"200", "404"}
    \/ last.status = "302" /\ last.to # "login"

UngatedViews == {"list_books", "library_detail"}

FormViews == {"book_create", "book_edit"}

\* the request last sent was a form submission that reached the form: it was
\* a POST, the gate let it through and (book_edit) the book was found
Submission ==
    /\ last.op \in FormViews
    /\ sent.method = "POST"
    /\ last.status \notin {"403", "404"}

\* a string without its leading and trailing blanks
Trimmed(raw) ==
    LET n == Len(raw)
        lead == Cardinality({i \in 1..n : \A k \in 1..i : raw[k] = " "})
        trail == Cardinality({i \in 1..n : \A k \in i..n : raw[k] = " "})
    IN IF lead = n THEN <<>> ELSE SubSeq(raw, lead + 1, n - trail)

YearInRange(y) == y >= 1000 /\ y <= CurrentYear + 10

\* C13: a book_create or book_edit submission whose publication_year is
\* below 1000 (0 and negative years included) or above the current year
\* plus 10 is answered with an error on publication_year and writes
\* nothing; every year these views persist is within the range.
C13_YearOutOfRangeRejected ==
    [][Submission' =>
          /\ ~YearInRange(sent'.data.publication_year) =>
                /\ "publication_year" \in last'.errors
                /\ books' = books
          /\ \A b \in books' \ books : YearInRange(b.publication_year)]_vars

\* C14: a submission whose title or author, once trimmed, has fewer than 2
\* characters or more than 200 (title) or 100 (author) is answered with an
\* error on that field and writes nothing; a title and an author that are
\* persisted are the submitted ones trimmed, within those lengths.
C14_TitleAuthorTrimmedAndBounded ==
    [][Submission' =>
          LET t == Trimmed(sent'.data.title)
              a == Trimmed(sent'.data.author)
          IN /\ (Len(t) < 2 \/ Len(t) > 200) =>
                   "title" \in last'.errors /\ books' = books
             /\ (Len(a) < 2 \/ Len(a) > 100) =>
                   "author" \in last'.errors /\ books' = books
             /\ \A b \in books' \ books :
                   /\ b.title = t /\ Len(t) >= 2 /\ Len(t) <= 200
                   /\ b.author = a /\ Len(a) >= 2 /\ Len(a) <= 100]_vars

C14_Witness ==
    /\ last.op = "book_edit"
    /\ last.status = "302"
    /\ sent.method = "POST"
    /\ sent.data.title = <<" ", "a", "b", " ">>
    /\ \E b \in books : b.id = last.obj /\ b.title = <<"a", "b">>

\* C15: a submission the form does not validate writes nothing, is answered
\* with the form page (no redirect) carrying the fields in error; a step of
\* book_create or book_edit that writes a book is a POST whose form validates.
C15_InvalidInputWritesNothing ==
    [][last'.op \in FormViews =>
          /\ (Submission' /\ ~BookForm(sent'.data).is_valid) =>
                /\ books' = books
                /\ nextBookId' = nextBookId
                /\ last'.status = "200" /\ last'.to = ""
                /\ last'.errors # {}
                /\ last'.errors = BookForm(sent'.data).errors
          /\ books' # books =>
                sent'.method = "POST" /\ BookForm(sent'.data).is_valid]_vars

C15_Witness ==
    /\ last.op = "book_edit"
    /\ last.status = "200"
    /\ sent.method = "POST"
    /\ last.errors = {"author"}
    /\ \E b \in books : b.id = last.obj

\* the views that look a book up by the pk in the URL, and where
LookupViews == {"book_detail", "book_edit", "book_delete"}
RelLookupViews == {"edit_book", "delete_book"}

Stored(view, pk) ==
    \/ view \in LookupViews /\ \E b \in books : b.id = pk
    \/ view \in RelLookupViews /\ \E b \in relBooks : b.id = pk

catalog == <<books, nextBookId, relBooks, nextRelBookId, authors, libraries>>

\* C16: at every capability-gated view the permission is tested first, then
\* the book is looked up, then the form is validated, then the write is
\* made: an identity without the capability is answered 403 whether the pk
\* exists or not; an identity with it that names an absent pk is answered
\* 404; and whenever the answer is not the redirect after a write, nothing
\* stored has changed.
C16_GateThenLookupThenWrite ==
    [][last'.op \in CapabilityViews =>
          LET holds == HoldsCapability(last'.who, GateCapability(last'.op))
              lookup == last'.op \in LookupViews \cup RelLookupViews
          IN /\ ~holds => last'.status = "403"
             /\ (holds /\ lookup /\ ~Stored(last'.op, last'.obj)) =>
                   last'.status = "404"
             /\ (holds /\ lookup /\ Stored(last'.op, last'.obj)) =>
                   last'.status \in {"200", "302"}
             /\ last'.status # "302" => catalog' = catalog]_vars

C16_Witness ==
    /\ last.op = "edit_book"
    /\ last.status = "403"
    /\ last.who = Anonymous
    /\ superusers # {}
    /\ relBooks # {}
    /\ \A b \in relBooks : b.id # last.obj
    /\ \A b \in relBooks : b.id # last.obj

ApiWriteActions == {"create", "update", "partial_update", "destroy"}
ApiReadActions == {"list", "retrieve"}
ApiRefusals == {"401", "403"}

C18_CreateNeedsAuthenticationOnly ==
    last.caller = "user" =>
        /\ last.op = "create" => last.status \notin ApiRefusals
        /\ last.op \in {"update", "partial_update", "destroy"} =>
               last.status \in ApiRefusals

\* C19: a request to BookList never changes the books; without credentials
\* it is refused; a GET of an authenticated caller, staff or not, is
\* answered 200 with every book row.
C19_BookListReadOnlyAuthenticated ==
    [][last'.op \in {"BookList.get", "BookList.post"} =>
          /\ apiBooks' = apiBooks
          /\ nextApiBookId' = nextApiBookId
          /\ last'.caller = "anonymous" => last'.status \in ApiRefusals
          /\ (last'.caller # "anonymous" /\ last'.op = "BookList.get") =>
                last'.status = "200" /\ last'.rows = apiBooks]_vars

C19_Witness ==
    /\ last.op = "BookList.get"
    /\ last.caller = "user"
    /\ last.status = "200"
    /\ last.rows # {}
    /\ last.rows = apiBooks

SecurityHeaders ==
    [n \in {"Content-Security-Policy", "X-Content-Type-Options",
            "X-Frame-Options", "X-XSS-Protection"} |->
        CASE n = "Content-Security-Policy" -> csp_policy
          [] n = "X-Content-Type-Options" -> "nosniff"
          [] n = "X-Frame-Options" -> "DENY"
          [] n = "X-XSS-Protection" -> "1; mode=block"]

\* C20: whatever response the inner handler returned, the response leaving
\* CSPMiddleware carries the fixed Content-Security-Policy, nosniff, DENY
\* and '1; mode=block', and has the status, the body and every other header
\* of the inner response, and no header more.
C20_FixedSecurityHeadersNothingElse ==
    wire # NoWire =>
        /\ \A n \in DOMAIN SecurityHeaders :
              /\ n \in DOMAIN wire.outer.headers
              /\ wire.outer.headers[n] = SecurityHeaders[n]
        /\ wire.outer.status = wire.inner.status
        /\ wire.outer.body = wire.inner.body
        /\ DOMAIN wire.outer.headers =
              (DOMAIN wire.inner.headers) \cup (DOMAIN SecurityHeaders)
        /\ \A n \in (DOMAIN wire.inner.headers) \ (DOMAIN SecurityHeaders) :
              wire.outer.headers[n] = wire.inner.headers[n]

C20_Witness ==
    /\ wire.inner.status = "403"
    /\ DOMAIN wire.inner.headers = {"X-Frame-Options", "Content-Type"}
    /\ wire.inner.headers["X-Frame-Options"] = "SAMEORIGIN"
    /\ wire.outer.headers["X-Frame-Options"] = "DENY"
    /\ wire.outer.headers["Content-Type"] = wire.inner.headers["Content-Type"]

GatedBookViews == {"add_book", "edit_book", "delete_book"}
AdminSiteOps == {"admin_add_author", "admin_add_library"}
QuerySamples ==
    {"query_books_by_author", "list_books_in_library",
     "retrieve_librarian_for_library"}
RelViews == GatedBookViews \cup UngatedViews \cup RoleViews

\* the Book, Author, Library and Librarian tables
relCatalog ==
    <<authors, authorNames, relBooks, libraries, libraryNames, librarians>>

BooksOfAuthorsNamed(name) ==
    {b \in relBooks : b.author \in authors /\ authorNames[b.author] = name}

\* C22: when query_books_by_author returns, its three methods have listed
\* the same set of Books, the Books whose author is named 'George Orwell';
\* with one Book in the table, '1984' by that author, the listing is exactly
\* that Book.
C22_QueryByAuthorNameExact ==
    (last.op = "query_books_by_author" /\ last.status = "ok") =>
        /\ printed.method1 = printed.method2
        /\ printed.method2 = printed.method3
        /\ printed.method3 = BooksOfAuthorsNamed("George Orwell")
        /\ (\E b \in relBooks :
               /\ relBooks = {b}
               /\ b.title = Title1984
               /\ authorNames[b.author] = "George Orwell") =>
              {b.title : b \in printed.method3} = {Title1984}

C22_Witness ==
    /\ last.op = "query_books_by_author"
    /\ last.status = "ok"
    /\ Cardinality(relBooks) = 1
    /\ Cardinality(authors) = 2
    /\ {b.title : b \in printed.method3} = {Title1984}

\* C23: a step of a User save (one of its post_save receivers running)
\* leaves the role of every profile that holds 'Admin' or 'Librarian' as it
\* is: no receiver writes an older role back.
C23_UserSaveKeepsRole ==
    [][(req.pc # "idle" /\ req' # req) =>
          \A p \in profiles :
              p.role \in {"Admin", "Librarian"} =>
                  \A q \in profiles' : q.id = p.id => q.role = p.role]_vars

\* C24: while a provisioning run that began on provisioned groups is in
\* flight, each of Viewers, Editors and Admins holds all the grants it is to
\* end with, and no member of a group is refused (403) at a bookshelf view
\* whose capability the group is to hold.
C24_ProvisioningRunNotObservable ==
    [][(job.provisioned /\ job.pc # "idle") =>
          /\ \A g \in GroupNames : ExpectedGrants[g] \subseteq groups[g]
          /\ (/\ last'.op \in BookshelfViews
              /\ last'.who \in users
              /\ \E g \in membership[last'.who] \cap GroupNames :
                    RequiredCapability(last'.op) \in ExpectedGrants[g]) =>
                 last'.status # "403"]_vars

DeleteViews == {"book_delete", "delete_book"}

\* the rows of the table a delete view works on
BookTable(view) == IF view = "book_delete" THEN books ELSE relBooks
BookTableAfter(view) == IF view = "book_delete" THEN books' ELSE relBooks'

\* C25: book_delete and delete_book remove the stored Book with the
\* referenced id, and nothing else, when the request is a POST of an
\* identity holding the delete capability; every other request leaves both
\* book tables as they are, and a request with another method of such an
\* identity for a stored Book is answered with the confirmation page (200).
C25_DeleteOnlyOnPostExactlyOne ==
    [][last'.op \in DeleteViews =>
          LET view == last'.op
              holds == HoldsCapability(last'.who, GateCapability(view))
              named == {b \in BookTable(view) : b.id = last'.obj}
          IN /\ IF holds /\ sent'.method = "POST"
                THEN BookTableAfter(view) = BookTable(view) \ named
                ELSE BookTableAfter(view) = BookTable(view)
             /\ view = "book_delete" => relBooks' = relBooks
             /\ view = "delete_book" => books' = books
             /\ (holds /\ sent'.method # "POST" /\ named # {}) =>
                   last'.status = "200"
             /\ BookTableAfter(view) # BookTable(view) =>
                   last'.status = "302"]_vars

C25_Witness ==
    /\ last.op = "delete_book"
    /\ last.status = "302"
    /\ sent.method = "POST"
    /\ last.who \in superusers
    /\ Cardinality(relBooks) = 1
    /\ \A b \in relBooks : b.id # last.obj
    /\ Cardinality(books) = 2

ReferentialIntegrity ==
    /\ \A b \in relBooks : b.author \in authors
    /\ \A r \in librarians : \E l \in libraries : l.id = r.library
    /\ \A l \in libraries :
          Cardinality({r \in librarians : r.library = l.id}) <= 1
    /\ \A p \in profiles : p.user \in users
    /\ \A u \in users : Cardinality(ProfilesOf(profiles, u)) <= 1

\* C26: after every create and delete operation each Book names a stored
\* Author, each Librarian a stored Library, each Library has at most one
\* Librarian, each UserProfile names a stored User and each User has at most
\* one UserProfile; deleting an Author removes that author's Books and no
\* other, deleting a Library removes its Librarian, deleting a User removes
\* its UserProfile.
C26_ReferentialIntegrity ==
    [][/\ ReferentialIntegrity'
       /\ last'.op = "admin_delete_author" =>
             /\ authors' = authors \ {last'.obj}
             /\ relBooks' = {b \in relBooks : b.author # last'.obj}
       /\ last'.op = "admin_delete_library" =>
             /\ {l.id : l \in libraries'} =
                   {l.id : l \in libraries} \ {last'.obj}
             /\ librarians' = {r \in librarians : r.library # last'.obj}
       /\ last'.op = "delete_user" =>
             /\ users' = users \ {last'.obj}
             /\ profiles' = {p \in profiles : p.user # last'.obj}]_vars

C26_Witness ==
    /\ last.op = "admin_delete_author"
    /\ last.obj = 1
    /\ authors = {}
    /\ relBooks = {}
    /\ nextRelBookId > 1
    /\ librarians # {}
    /\ nextUserId > 1

ManagerCalls == {"create_user", "create_superuser"}

\* the call is one the manager is to reject
BadManagerCall(op, a) ==
    \/ a.email = ""
    \/ a.username = ""
    \/ op = "create_superuser" /\ (a.is_staff = "False" \/ a.is_superuser = "False")

\* C27: create_user with an empty email or username, and create_superuser
\* with is_staff or is_superuser given and not True, raise ValueError and
\* leave the users and the profiles as they were; a create_superuser call
\* that returns has made a user with is_staff and is_superuser True (a
\* member of superusers).
C27_ManagerRejectsBadInput ==
    [][last'.op \in ManagerCalls =>
          /\ BadManagerCall(last'.op, args') =>
                /\ last'.status = "ValueError"
                /\ users' = users
                /\ superusers' = superusers
                /\ profiles' = profiles
          /\ (last'.op = "create_superuser" /\ last'.status = "ok") =>
                /\ last'.obj \in users' \ users
                /\ last'.obj \in superusers'
                /\ args'.is_staff # "False"
                /\ args'.is_superuser # "False"
          /\ (last'.op = "create_user" /\ last'.status = "ok") =>
                last'.obj \notin superusers']_vars

C27_Witness ==
    /\ last.op = "create_superuser"
    /\ last.status = "ValueError"
    /\ args.email = "e"
    /\ args.username = "n"
    /\ args.is_staff = "False"
    /\ args.is_superuser = "True"
    /\ users # {}

====
